---------------------------- MODULE Spec2Model ----------------------------
(***************************************************************************)
(* SmartCoder demo back end (server/server.js): the in-memory submission   *)
(* log with its beat-percentage ranking, and the problem catalog that is   *)
(* persisted to problems.json. SmartCoder VS Code extension                *)
(* (src/extension.ts): the span locators for a class and a method, the     *)
(* application of suggested code to the editor, and the network calls of   *)
(* the sidebar.                                                            *)
(*                                                                         *)
(* JavaScript values are encoded as follows.                               *)
(*   - a request body is a record that holds exactly the keys the client   *)
(*     sent: an absent key is the JavaScript value undefined;              *)
(*   - a value that is either null or something else (a beat percentage,   *)
(*     the submission check answers) is the sequence << >> (null) or <<v>>;*)
(*   - response is [handler, request, code, body]: the handler that ran    *)
(*     last, what it was sent, the HTTP status and the JSON it answered    *)
(*     (check answers body.latest, the problem list body.problems);        *)
(*   - a double is [m |-> bits, e |-> k]: the 53 mantissa bits, least      *)
(*     significant first, and the exponent of the lowest bit, so that the  *)
(*     value is m * 2^e.                                                   *)
(***************************************************************************)
EXTENDS Integers, Sequences, FiniteSets, TLC

VARIABLES
    submissions,        \* server.js:17   let submissions = []
    problemsDatabase,   \* server.js:64   let problemsDatabase = []
    problemsFile,       \* server.js:23   contents of PROBLEMS_FILE on disk
    response,           \* what the last handler passed to res.json / res.status
    beatArgs,           \* arguments of a direct call of calculateBeatPercentage
    beatResult,         \* its result
    beatPc,             \* "idle" before that call, "done" after it
    polled,             \* web page: log index of the entry its last GET
                        \* /api/check answered, as <<index>>; null before
    document,           \* extension.ts: text of the active editor's document
    located,            \* the last call of a span locator and its result
    apply,              \* progress of one _applyCodeToEditor call
    client              \* requests sent and messages shown by the sidebar

vars == <<submissions, problemsDatabase, problemsFile, response,
          beatArgs, beatResult, beatPc, polled, document, located, apply, client>>

\* the state of the VS Code extension (src/extension.ts)
extensionVars == <<document, located, apply, client>>

\* the state of the back end (server/server.js), and of the web page that
\* polls it
serverVars == <<submissions, problemsDatabase, problemsFile, response,
                beatArgs, beatResult, beatPc, polled>>

\* the extension before any of its commands ran: no document, no call
ExtensionIdle ==
    /\ document = << >>
    /\ located = [kind |-> "none"]
    /\ apply = [pc |-> "idle"]
    /\ client = [pc |-> "idle"]

---------------------------------------------------------------------------
(* Bounds of the model *)

\* longest history enumerated element by element
MaxLen == 3
\* longest run of one value in a two-run history (23 + 17 = 40 entries)
MaxRun == 23
\* most submissions the log takes when all four handlers interleave
MaxLog == 2
\* most submissions the log takes when the ranking is explored
MaxRankedLog == 3

---------------------------------------------------------------------------
(* IEEE-754 double arithmetic, as far as line 126 uses it:                 *)
(*     Math.round((beatCount / validValues.length) * 100)                  *)
(* beatCount and the length are small integers, beatCount >= 0 and         *)
(* length >= 1.                                                            *)

\* significand length of a JavaScript Number (binary64)
MantissaBits == 53
\* the factor of line 126
Hundred == 100

null == << >>
Num(n) == <<n>>

RECURSIVE Pow2Shift(_, _, _)
\* c / n = 2^e * (r / d) with d <= r < 2 * d, as [e, r, d]   (c > 0, n > 0)
Pow2Shift(c, n, e) ==
    IF c < n THEN Pow2Shift(2 * c, n, e - 1)
    ELSE IF c >= 2 * n THEN Pow2Shift(c, 2 * n, e + 1)
    ELSE [e |-> e, r |-> c, d |-> n]

RECURSIVE DivBits(_, _, _, _)
\* k further quotient bits of r / n (r < n) put below acc; the last remainder
DivBits(r, n, k, acc) ==
    IF k = 0 THEN [m |-> acc, r |-> r]
    ELSE IF 2 * r >= n THEN DivBits(2 * r - n, n, k - 1, <<1>> \o acc)
         ELSE DivBits(2 * r, n, k - 1, <<0>> \o acc)

RECURSIVE IncBits(_)
\* bits + 1 (least significant bit first)
IncBits(bits) ==
    IF bits = << >> THEN <<1>>
    ELSE IF Head(bits) = 0 THEN <<1>> \o Tail(bits)
         ELSE <<0>> \o IncBits(Tail(bits))

\* a significand that grew to 54 bits by a carry is 2^53: drop its low zero
Renormalize(m, e) ==
    IF Len(m) > MantissaBits THEN [m |-> Tail(m), e |-> e + 1]
    ELSE [m |-> m, e |-> e]

\* the double nearest to c / n, ties to even   (c > 0, n > 0)
FloatDiv(c, n) ==
    LET s == Pow2Shift(c, n, 0)
        q == DivBits(s.r - s.d, s.d, MantissaBits - 1, <<1>>)
        up == (2 * q.r > s.d) \/ (2 * q.r = s.d /\ Head(q.m) = 1)
        e == s.e - (MantissaBits - 1)
    IN  IF up THEN Renormalize(IncBits(q.m), e) ELSE [m |-> q.m, e |-> e]

RECURSIVE MulBits(_, _, _)
\* bits * k + carry (least significant bit first)
MulBits(bits, k, carry) ==
    IF bits = << >>
    THEN IF carry = 0 THEN << >>
         ELSE <<carry % 2>> \o MulBits(<< >>, k, carry \div 2)
    ELSE LET t == Head(bits) * k + carry
         IN  <<t % 2>> \o MulBits(Tail(bits), k, t \div 2)

\* TRUE iff some bit of the sequence is 1
AnyBit(bits) == \E i \in DOMAIN bits : bits[i] = 1

\* the exact product bits * 2^e rounded to a double, ties to even
RoundToDouble(bits, e) ==
    LET d == Len(bits) - MantissaBits
    IN  IF d <= 0 THEN [m |-> bits, e |-> e]
        ELSE LET kept == SubSeq(bits, d + 1, Len(bits))
                 guard == bits[d]
                 sticky == AnyBit(SubSeq(bits, 1, d - 1))
                 up == guard = 1 /\ (sticky \/ Head(kept) = 1)
             IN  IF up THEN Renormalize(IncBits(kept), e + d)
                 ELSE [m |-> kept, e |-> e + d]

\* the double nearest to x * k
FloatMul(x, k) == RoundToDouble(MulBits(x.m, k, 0), x.e)

RECURSIVE BitsValue(_)
\* the integer a bit sequence denotes (least significant bit first)
BitsValue(bits) ==
    IF bits = << >> THEN 0 ELSE Head(bits) + 2 * BitsValue(Tail(bits))

\* Math.round of a double 0 < x < 2^31: floor(x + 0.5), so a fraction of
\* exactly one half goes up and anything below it goes down
MathRound(x) ==
    LET f == 0 - x.e      \* number of fraction bits
    IN  IF f <= 0 THEN BitsValue(x.m)
        ELSE IF f > Len(x.m) THEN 0
        ELSE BitsValue(SubSeq(x.m, f + 1, Len(x.m))) + x.m[f]

\* line 126: Math.round((beatCount / validValues.length) * 100), evaluated in
\* doubles in that order: the quotient is rounded, then the product
RoundedPercent(beatCount, length) ==
    IF beatCount = 0 THEN 0
    ELSE MathRound(FloatMul(FloatDiv(beatCount, length), Hundred))

---------------------------------------------------------------------------
(* calculateBeatPercentage, server.js:104-127 *)

\* no filter: failed runs stay in the pool
ValidValuesUnfiltered(allValues) == allValues

\* line 110: allValues.filter(v => v >= 0)
ValidValues(allValues) == SelectSeq(allValues, LAMBDA v : v >= 0)

\* the two comparisons exchanged
BeatCountReversed(value, validValues, isBetterLower) ==
    IF isBetterLower
    THEN Len(SelectSeq(validValues, LAMBDA v : v < value))
    ELSE Len(SelectSeq(validValues, LAMBDA v : v > value))

\* lines 116-123: how many of the valid values the new value beats
BeatCount(value, validValues, isBetterLower) ==
    IF isBetterLower
    THEN Len(SelectSeq(validValues, LAMBDA v : v > value))
    ELSE Len(SelectSeq(validValues, LAMBDA v : v < value))

\* the test of an invalid current value forgotten
NoRankingMissingValueCheck(value, allValues) == Len(allValues) = 0

\* line 105: no history at all, or the current value is invalid
NoRanking(value, allValues) == Len(allValues) = 0 \/ value < 0

\* the beaten values counted in allValues, the failed runs included
calculateBeatPercentageCountAll(value, allValues, isBetterLower) ==
    IF NoRanking(value, allValues) THEN null
    ELSE LET validValues == ValidValues(allValues)
         IN  IF Len(validValues) = 0 THEN null
             ELSE Num(RoundedPercent(BeatCount(value, allValues, isBetterLower),
                                     Len(validValues)))

calculateBeatPercentage(value, allValues, isBetterLower) ==
    IF NoRanking(value, allValues) THEN null
    ELSE LET validValues == ValidValues(allValues)
         IN  IF Len(validValues) = 0 THEN null
             ELSE Num(RoundedPercent(BeatCount(value, validValues, isBetterLower),
                                     Len(validValues)))

---------------------------------------------------------------------------
(* Direct calls of calculateBeatPercentage on bounded inputs *)

\* metric values: -1 is a failed run (server.js:134-135), the others are valid
MetricValues == {-1, 0, 1, 2}

\* every history of at most MaxLen metric values
ShortHistories == UNION {[1 .. k -> MetricValues] : k \in 0 .. MaxLen}

Run(a, i) == [k \in 1 .. i |-> a]

\* histories made of two runs of equal values, each at most MaxRun long
TwoRunHistories ==
    {Run(a, i) \o Run(b, j) : a \in MetricValues, b \in MetricValues,
                              i \in 0 .. MaxRun, j \in 0 .. MaxRun}

BeatInputs ==
    [value : MetricValues,
     allValues : ShortHistories \cup TwoRunHistories,
     isBetterLower : BOOLEAN]

NoBeatArgs == [value |-> 0, allValues |-> << >>, isBetterLower |-> TRUE]

BeatInit ==
    /\ ExtensionIdle
    /\ beatArgs \in BeatInputs
    /\ beatResult = null
    /\ beatPc = "idle"
    /\ polled = null
    /\ submissions = << >>
    /\ problemsDatabase = << >>
    /\ problemsFile = << >>
    /\ response = << >>

BeatCall ==
    /\ beatPc = "idle"
    /\ beatResult' = calculateBeatPercentage(beatArgs.value, beatArgs.allValues,
                                             beatArgs.isBetterLower)
    /\ beatPc' = "done"
    /\ UNCHANGED <<beatArgs, submissions, problemsDatabase, problemsFile, response>>
    /\ UNCHANGED extensionVars
    /\ UNCHANGED polled

BeatNext == BeatCall

SpecBeat == BeatInit /\ [][BeatNext]_vars

---------------------------------------------------------------------------
(* The submission log: POST /api/submit, GET /api/check,                   *)
(* POST /api/mark_read, GET /api/stats   (server.js:129-227)               *)

\* lines 134-135: the metric of a submit whose body gives none
FailedRun == -1
\* line 218: bytes in a megabyte, 1024 * 1024
BytesPerMB == 1048576

\* the value of a key the request may leave out
Has(body, key) == key \in DOMAIN body

\* one optional key of a request: every value of vals, or the key left out
Optional(key, vals) == {key :> v : v \in vals} \cup {<< >>}

\* what a client measured: nothing (a failed run), the runtime alone, or both
Measurements ==
    {<< >>,
     "runtime" :> 2,
     ("runtime" :> 1) @@ ("memory" :> 1)}

\* bodies of POST /api/submit; output, status, failedCase and errorMessage
\* are left out of every body: the server copies them and never reads them
SubmitBodies ==
    {("code" :> "code") @@ p @@ m @@ t :
        p \in {"problemId" :> id : id \in {"101", "102"}},
        m \in Measurements,
        t \in Optional("timestamp", {0, 1})}

\* bodies of POST /api/submit with every combination of a missing and a
\* measured metric, all stamped by the client
RankingBodies ==
    {("code" :> "code") @@ ("timestamp" :> 1) @@ p @@ r @@ m :
        p \in {"problemId" :> id : id \in {"101", "102"}},
        r \in Optional("runtime", {1, 2}),
        m \in Optional("memory", {1})}

\* values Date.now() may return (line 148)
Times == {1, 2}

\* queries of GET /api/stats
StatsQueries == Optional("problemId", {"", "101", "102"})

NoResponse == [handler |-> "none"]

\* lines 142-153: the record built from the request
NewSubmission(body, now) ==
    [code |-> body.code,
     problemId |-> body.problemId,
     output |-> IF Has(body, "output") /\ body.output # "" THEN body.output ELSE "",
     runtime |-> IF Has(body, "runtime") THEN body.runtime ELSE FailedRun,
     memory |-> IF Has(body, "memory") THEN body.memory ELSE FailedRun,
     timestamp |-> IF Has(body, "timestamp") /\ body.timestamp # 0
                   THEN body.timestamp ELSE now,
     status |-> IF Has(body, "status") /\ body.status # ""
                THEN body.status ELSE "pending",
     submissionStatus |-> "pending"]

\* lines 161-162: the metric of every stored submission, in log order
AllRuntimes(log) == [i \in DOMAIN log |-> log[i].runtime]
AllMemories(log) == [i \in DOMAIN log |-> log[i].memory]

\* the new entry ranked against the log as it was before the push
PushRankedBeforePush(log, new) ==
    Append(log,
           new @@
           [beatRuntimePct |->
                calculateBeatPercentage(new.runtime, AllRuntimes(log), TRUE),
            beatMemoryPct |->
                calculateBeatPercentage(new.memory, AllMemories(log), TRUE)])

\* lines 156-166: the log after the push, the new entry ranked against it
PushRanked(log, new) ==
    LET pushed == Append(log, new)
    IN  Append(log,
               new @@
               [beatRuntimePct |->
                    calculateBeatPercentage(new.runtime, AllRuntimes(pushed), TRUE),
                beatMemoryPct |->
                    calculateBeatPercentage(new.memory, AllMemories(pushed), TRUE)])

\* the oldest entry instead of the most recent one
LatestIsFirst(log) == log[1]

\* the most recent entry of a non-empty log (lines 183, 193)
Latest(log) == log[Len(log)]

\* POST /api/submit, lines 130-177
Submit(body, now) ==
    /\ submissions' = PushRanked(submissions, NewSubmission(body, now))
    /\ response' = [handler |-> "submit", request |-> body, code |-> 200,
                    body |-> [message |-> "received",
                              beatRuntimePct |-> Latest(submissions').beatRuntimePct,
                              beatMemoryPct |-> Latest(submissions').beatMemoryPct]]
    /\ UNCHANGED <<problemsDatabase, problemsFile, beatArgs, beatResult, beatPc>>
    /\ UNCHANGED extensionVars
    /\ UNCHANGED polled

\* GET /api/check, lines 180-188: the JSON answered is <<entry>> or null
Check ==
    /\ response' = [handler |-> "check", request |-> << >>, code |-> 200,
                    body |-> [latest |-> IF Len(submissions) > 0
                                         THEN <<Latest(submissions)>> ELSE null]]
    /\ polled' = IF Len(submissions) > 0 THEN <<Len(submissions)>> ELSE null
    /\ UNCHANGED <<submissions, problemsDatabase, problemsFile,
                   beatArgs, beatResult, beatPc>>
    /\ UNCHANGED extensionVars

\* the latest entry taken off the log once it was handled
MarkLatestReadPop(log) ==
    IF Len(log) > 0 THEN SubSeq(log, 1, Len(log) - 1) ELSE log

\* every entry marked read, not the latest alone
MarkAllRead(log) == [i \in DOMAIN log |-> [log[i] EXCEPT !.status = "read"]]

\* lines 192-195: the log with its latest entry marked read
MarkLatestRead(log) ==
    IF Len(log) > 0
    THEN [log EXCEPT ![Len(log)] = [@ EXCEPT !.status = "read"]]
    ELSE log

\* POST /api/mark_read, lines 191-197
MarkRead ==
    /\ submissions' = MarkLatestRead(submissions)
    /\ response' = [handler |-> "mark_read", request |-> << >>, code |-> 200,
                    body |-> [status |-> "ok"]]
    /\ UNCHANGED <<problemsDatabase, problemsFile, beatArgs, beatResult, beatPc>>
    /\ UNCHANGED extensionVars
    /\ UNCHANGED polled

RECURSIVE InsertByTimestamp(_, _)
\* s put into a sequence sorted by timestamp, after every entry not later
InsertByTimestamp(sorted, s) ==
    IF sorted = << >> THEN <<s>>
    ELSE IF Head(sorted).timestamp <= s.timestamp
         THEN <<Head(sorted)>> \o InsertByTimestamp(Tail(sorted), s)
         ELSE <<s>> \o sorted

\* the array left in the order of the log
Unsorted(seq) == seq

RECURSIVE SortByTimestamp(_)
\* line 212: Array.prototype.sort((a, b) => a.timestamp - b.timestamp), stable
SortByTimestamp(seq) ==
    IF seq = << >> THEN << >>
    ELSE InsertByTimestamp(SortByTimestamp(SubSeq(seq, 1, Len(seq) - 1)),
                           seq[Len(seq)])

\* lines 218, 223: memory / (1024 * 1024); a division by a power of two is
\* exact in doubles, so the value is the fraction itself
MegaBytes(memory) == [num |-> memory, den |-> BytesPerMB]

\* lines 202-207: the submissions the query selects
FilteredSubmissions(log, query) ==
    IF Has(query, "problemId") /\ query.problemId # ""
    THEN SelectSeq(log, LAMBDA s : s.problemId = query.problemId)
    ELSE log

\* line 209
StatsValid(filtered) == SelectSeq(filtered, LAMBDA s : s.runtime >= 0 /\ s.memory >= 0)

\* lines 214-226: sort() sorts validSubmissions in place and returns it, so the
\* two distributions are read from the sorted array as well
StatsBody(log, query) ==
    LET filteredSubmissions == FilteredSubmissions(log, query)
        sortedSubmissions == SortByTimestamp(StatsValid(filteredSubmissions))
    IN  [totalSubmissions |-> Len(filteredSubmissions),
         validSubmissions |-> Len(sortedSubmissions),
         runtimeDistribution |->
             [i \in DOMAIN sortedSubmissions |-> sortedSubmissions[i].runtime],
         memoryDistribution |->
             [i \in DOMAIN sortedSubmissions |-> MegaBytes(sortedSubmissions[i].memory)],
         history |->
             [i \in DOMAIN sortedSubmissions |->
                 [timestamp |-> sortedSubmissions[i].timestamp,
                  runtime |-> sortedSubmissions[i].runtime,
                  memory |-> MegaBytes(sortedSubmissions[i].memory),
                  status |-> IF sortedSubmissions[i].status # ""
                             THEN sortedSubmissions[i].status ELSE "Accepted"]]]

\* the log sorted in place, as if line 212 sorted filteredSubmissions, which
\* is the log itself when the query has no problemId (line 203)
LogSortedInPlace(log, query) ==
    IF Has(query, "problemId") /\ query.problemId # "" THEN log
    ELSE SortByTimestamp(log)

\* the log after the handler ran: line 212 sorts validSubmissions in place,
\* and validSubmissions is the new array filter() returned at line 209,
\* never the array submissions itself, so the log keeps its order
LogAfterStats(log, query) == log

\* GET /api/stats, lines 200-227
Stats(query) ==
    /\ response' = [handler |-> "stats", request |-> query, code |-> 200,
                    body |-> StatsBody(submissions, query)]
    /\ submissions' = LogAfterStats(submissions, query)
    /\ UNCHANGED <<problemsDatabase, problemsFile,
                   beatArgs, beatResult, beatPc>>
    /\ UNCHANGED extensionVars
    /\ UNCHANGED polled

SubmissionsInit ==
    /\ ExtensionIdle
    /\ submissions = << >>
    /\ response = NoResponse
    /\ problemsDatabase = << >>
    /\ problemsFile = << >>
    /\ beatArgs = NoBeatArgs
    /\ beatResult = null
    /\ beatPc = "idle"
    /\ polled = null

\* the four handlers of the log in any order, the log capped at MaxLog
SubmissionsNext ==
    \/ \E body \in SubmitBodies, now \in Times :
          Len(submissions) < MaxLog /\ Submit(body, now)
    \/ Check
    \/ MarkRead
    \/ \E query \in StatsQueries : Stats(query)

SpecSubmissions == SubmissionsInit /\ [][SubmissionsNext]_vars

\* submit, check and stats over RankingBodies, the log capped at MaxRankedLog;
\* mark_read is left out: it writes status only, which no ranking reads
RankingNext ==
    \/ \E body \in RankingBodies, now \in Times :
          Len(submissions) < MaxRankedLog /\ Submit(body, now)
    \/ Check
    \/ \E query \in StatsQueries : Stats(query)

SpecRanking == SubmissionsInit /\ [][RankingNext]_vars

---------------------------------------------------------------------------
(* The problem catalog: initializeProblemsDatabase, saveProblemsToFile,    *)
(* GET /api/problem/:id, GET /api/problems, POST /api/problems             *)
(* (server.js:23-99, 229-304)                                              *)
(*                                                                         *)
(* A JSON value of a problem is a record whose one key is its JavaScript   *)
(* type, so that === tells the string "101" from the number 101.  The      *)
(* Chinese texts of the source are given in English.                       *)

JsString(s) == [string |-> s]
JsNumber(n) == [number |-> n]
JsArray(a) == [array |-> a]

\* Array.isArray
IsArray(v) == "array" \in DOMAIN v

\* the values of the model that JavaScript's ! turns into true
FalsyValues == {JsString(""), JsNumber(0)}

\* !body[key]: the key is missing or its value is falsy
Not(body, key) == ~Has(body, key) \/ body[key] \in FalsyValues

TestCase(input, expected) == [input |-> input, expected |-> expected]

\* lines 26-61
DEFAULT_PROBLEMS ==
    <<[id |-> JsString("101"),
       title |-> JsString("A + B Problem"),
       description |-> JsString("sum of two integers"),
       difficulty |-> JsString("easy"),
       testCases |-> JsArray(<<TestCase("1 2", "3"), TestCase("10 20", "30"),
                               TestCase("-5 5", "0"),
                               TestCase("1000000 2000000", "3000000")>>)],
      [id |-> JsString("102"),
       title |-> JsString("Two Sum"),
       description |-> JsString("indices of the two numbers that add up to the target"),
       difficulty |-> JsString("easy"),
       testCases |-> JsArray(<<TestCase("2 7 11 15\n9", "0 1"),
                               TestCase("3 2 4\n6", "1 2"),
                               TestCase("3 3\n6", "0 1")>>)],
      [id |-> JsString("103"),
       title |-> JsString("Maximum Subarray"),
       description |-> JsString("the contiguous subarray with the largest sum"),
       difficulty |-> JsString("medium"),
       testCases |-> JsArray(<<TestCase("-2 1 -3 4 -1 2 1 -5 4", "6"),
                               TestCase("1", "1"),
                               TestCase("5 4 -1 7 8", "23")>>)]>>

\* lines 272, 282, 296: difficulty || 'medium'
DefaultDifficulty == JsString("medium")

\* a text that holds the last entry of the catalog only
JSONstringifyLastOnly(db) == [json |-> SubSeq(db, Len(db), Len(db))]

\* JSON.stringify(problemsDatabase, null, 2) and JSON.parse of it (lines 72,
\* 77, 90): every field of a stored problem is defined, so the text holds
\* each entry with each of its fields, in catalog order
JSONstringify(db) == [json |-> db]
JSONparse(text) == text.json

\* what PROBLEMS_FILE may hold
FileAbsent == [state |-> "absent"]
FileUnreadable == [state |-> "unreadable"]
FileWith(text) == [state |-> "written", text |-> text]

\* a catalog an earlier run of the server left in the file
SavedCatalog ==
    <<[id |-> JsString("104"),
       title |-> JsString("Saved"),
       description |-> JsString("kept from an earlier run"),
       difficulty |-> JsString("medium"),
       testCases |-> JsArray(<<TestCase("1", "1")>>)]>>

\* the file as the server may find it at startup
StartupFiles == {FileAbsent, FileUnreadable, FileWith(JSONstringify(SavedCatalog))}

\* how a call of fs.writeFileSync may end: the text is written; it throws and
\* the file is as before; it throws after the file was truncated
WriteOutcomes == {"written", "failed", "truncated"}

FileAfterWrite(file, text, outcome) ==
    CASE outcome = "written" -> FileWith(text)
      [] outcome = "failed" -> file
      [] outcome = "truncated" -> FileUnreadable

\* lines 66-85: [db, file] after initializeProblemsDatabase
InitializedFrom(file, outcome) ==
    IF file.state = "written"
    THEN [db |-> JSONparse(file.text), file |-> file]
    ELSE IF file.state = "absent"
         THEN [db |-> DEFAULT_PROBLEMS,
               file |-> FileAfterWrite(file, JSONstringify(DEFAULT_PROBLEMS), outcome)]
         ELSE [db |-> DEFAULT_PROBLEMS, file |-> file]

\* line 256: the body lacks a required field
InvalidProblemNoLengthCheck(body) ==
    \/ Not(body, "id")
    \/ Not(body, "title")
    \/ Not(body, "description")
    \/ Not(body, "testCases")
    \/ ~IsArray(body.testCases)

InvalidProblem(body) ==
    \/ Not(body, "id")
    \/ Not(body, "title")
    \/ Not(body, "description")
    \/ Not(body, "testCases")
    \/ ~IsArray(body.testCases)
    \/ Len(body.testCases.array) = 0

\* lines 267-273, 277-283: the record stored for a valid body
ProblemOf(body) ==
    [id |-> body.id,
     title |-> body.title,
     description |-> body.description,
     testCases |-> body.testCases,
     difficulty |-> IF Not(body, "difficulty") THEN DefaultDifficulty
                    ELSE body.difficulty]

\* line 263: problemsDatabase.findIndex(p => p.id === id), 0 for -1
FindIndex(db, id) ==
    IF \E i \in DOMAIN db : db[i].id = id
    THEN CHOOSE i \in DOMAIN db :
            db[i].id = id /\ \A j \in 1 .. i - 1 : db[j].id # id
    ELSE 0

\* the problem pushed whether or not its id is stored already
UpsertedAlwaysPush(db, problem) == Append(db, problem)

\* lines 263-285: the catalog with the problem replaced in place or pushed
Upserted(db, problem) ==
    LET existingIndex == FindIndex(db, problem.id)
    IN  IF existingIndex >= 1 THEN [db EXCEPT ![existingIndex] = problem]
        ELSE Append(db, problem)

\* the two contents a valid body may carry; they differ in every field
ProblemContents ==
    {("title" :> JsString("Title A")) @@ ("description" :> JsString("Text A"))
        @@ ("testCases" :> JsArray(<<TestCase("1 2", "3")>>)),
     ("title" :> JsString("Title B")) @@ ("description" :> JsString("Text B"))
        @@ ("testCases" :> JsArray(<<TestCase("2", "4"), TestCase("3", "9")>>))
        @@ ("difficulty" :> JsString("hard"))}

\* ids of valid bodies: a default problem, a new one, and the number 101
ProblemIds == {JsString("101"), JsString("104"), JsNumber(101)}

ValidProblemBodies == {("id" :> id) @@ c : id \in ProblemIds, c \in ProblemContents}

\* the body every faulty body is derived from
BaseBody ==
    ("id" :> JsString("104")) @@ ("title" :> JsString("Title A"))
        @@ ("description" :> JsString("Text A"))
        @@ ("testCases" :> JsArray(<<TestCase("1 2", "3")>>))

\* body without one key
Without(body, key) == [k \in DOMAIN body \ {key} |-> body[k]]

\* BaseBody with one fault: a required key missing or empty, or testCases
\* that is a string or an empty array
FaultyProblemBodies ==
    {Without(BaseBody, k) : k \in {"id", "title", "description", "testCases"}}
    \cup {(k :> JsString("")) @@ BaseBody : k \in {"id", "title", "description", "testCases"}}
    \cup {("testCases" :> JsString("1 2")) @@ BaseBody,
          ("testCases" :> JsArray(<< >>)) @@ BaseBody}

ProblemBodies == ValidProblemBodies \cup FaultyProblemBodies

\* ids a client may ask GET /api/problem/:problemId for; a route parameter
\* is a string
RouteIds == {"101", "104", "999"}

\* POST /api/problems, lines 252-304; writes counts the calls of writeFileSync
UpsertProblem(body, outcome) ==
    IF InvalidProblem(body)
    THEN /\ response' = [handler |-> "upsert", request |-> body, code |-> 400,
                         body |-> [error |-> "incomplete problem"], writes |-> 0]
         /\ UNCHANGED <<problemsDatabase, problemsFile>>
         /\ UNCHANGED <<submissions, beatArgs, beatResult, beatPc>>
         /\ UNCHANGED extensionVars
         /\ UNCHANGED polled
    ELSE /\ problemsDatabase' = Upserted(problemsDatabase, ProblemOf(body))
         /\ problemsFile' = FileAfterWrite(problemsFile,
                                           JSONstringify(problemsDatabase'), outcome)
         /\ response' =
               IF outcome = "written"
               THEN [handler |-> "upsert", request |-> body, code |-> 200,
                     body |-> [message |-> "saved",
                               problem |-> [id |-> body.id,
                                            title |-> body.title,
                                            description |-> body.description,
                                            difficulty |-> ProblemOf(body).difficulty,
                                            testCasesCount |-> Len(body.testCases.array)]],
                     writes |-> 1]
               ELSE [handler |-> "upsert", request |-> body, code |-> 500,
                     body |-> [error |-> "save failed"], writes |-> 1]
         /\ UNCHANGED <<submissions, beatArgs, beatResult, beatPc>>
         /\ UNCHANGED extensionVars
         /\ UNCHANGED polled

\* GET /api/problem/:problemId, lines 230-239
GetProblem(problemId) ==
    /\ LET index == FindIndex(problemsDatabase, JsString(problemId))
       IN  response' =
              IF index >= 1
              THEN [handler |-> "problem", request |-> [problemId |-> problemId],
                    code |-> 200,
                    body |-> problemsDatabase[index]]
              ELSE [handler |-> "problem", request |-> [problemId |-> problemId],
                    code |-> 404,
                    body |-> [error |-> "Problem not found"]]
    /\ UNCHANGED <<problemsDatabase, problemsFile>>
    /\ UNCHANGED <<submissions, beatArgs, beatResult, beatPc>>
    /\ UNCHANGED extensionVars
    /\ UNCHANGED polled

\* GET /api/problems, lines 242-249
ListProblems ==
    /\ response' =
          [handler |-> "problems", request |-> << >>, code |-> 200,
           body |->
              [problems |->
                  [i \in DOMAIN problemsDatabase |->
                      [id |-> problemsDatabase[i].id,
                       title |-> problemsDatabase[i].title,
                       description |-> problemsDatabase[i].description,
                       difficulty |->
                          IF Not(problemsDatabase[i], "difficulty")
                          THEN DefaultDifficulty
                          ELSE problemsDatabase[i].difficulty]]]]
    /\ UNCHANGED <<problemsDatabase, problemsFile>>
    /\ UNCHANGED <<submissions, beatArgs, beatResult, beatPc>>
    /\ UNCHANGED extensionVars
    /\ UNCHANGED polled

\* the server after startup (line 99), whatever it found on disk
ProblemsInit ==
    /\ ExtensionIdle
    /\ \E file \in StartupFiles, outcome \in WriteOutcomes :
          /\ problemsDatabase = InitializedFrom(file, outcome).db
          /\ problemsFile = InitializedFrom(file, outcome).file
    /\ response = NoResponse
    /\ submissions = << >>
    /\ beatArgs = NoBeatArgs
    /\ beatResult = null
    /\ beatPc = "idle"
    /\ polled = null

ProblemsNext ==
    \/ \E body \in ProblemBodies, outcome \in WriteOutcomes : UpsertProblem(body, outcome)
    \/ \E problemId \in RouteIds : GetProblem(problemId)
    \/ ListProblems

SpecProblems == ProblemsInit /\ [][ProblemsNext]_vars

---------------------------------------------------------------------------
(* Properties of calculateBeatPercentage, checked under SpecBeat *)

\* indices of the history entries that are valid runs
ValidIndices(H) == {i \in DOMAIN H : H[i] >= 0}

\* indices of the valid entries strictly worse than v
WorseIndices(v, H, lowerIsBetter) ==
    {i \in ValidIndices(H) : IF lowerIsBetter THEN H[i] > v ELSE H[i] < v}

\* round(100 * count / n) in exact arithmetic, a half rounded up
ExactRoundedPercent(count, n) == (2 * Hundred * count + n) \div (2 * n)

\* C1: calculateBeatPercentage(v, H, true) is null if and only if v < 0 or
\* every element of H is negative (an empty H included).
C1_NullIffInvalid ==
    (beatPc = "done" /\ beatArgs.isBetterLower)
        => (beatResult = null
              <=> (beatArgs.value < 0 \/ ValidIndices(beatArgs.allValues) = {}))

\* a call with a valid value whose non-empty history holds failed runs only
C1_Witness ==
    /\ beatPc = "done"
    /\ beatArgs.isBetterLower
    /\ beatArgs.value >= 0
    /\ Len(beatArgs.allValues) > 0
    /\ ValidIndices(beatArgs.allValues) = {}
    /\ beatResult = null

\* C2: a non-null result equals round(100 * count / n), a half rounded up,
\* where n counts the entries of H that are >= 0 and count those of them
\* strictly worse than v.
C2_ExactRounding ==
    (beatPc = "done" /\ beatResult # null)
        => beatResult =
             Num(ExactRoundedPercent(
                   Cardinality(WorseIndices(beatArgs.value, beatArgs.allValues,
                                            beatArgs.isBetterLower)),
                   Cardinality(ValidIndices(beatArgs.allValues))))

\* C3: every non-null result is an integer between 0 and 100 inclusive.
C3_PercentRange ==
    (beatPc = "done" /\ beatResult # null)
        => (Len(beatResult) = 1 /\ beatResult[1] \in 0 .. Hundred)

\* a call that beats every valid entry of a history that also holds a failed run
C3_Witness ==
    /\ beatPc = "done"
    /\ beatResult = Num(Hundred)
    /\ ValidIndices(beatArgs.allValues) # DOMAIN beatArgs.allValues

\* the history in every other order: every permutation of a history of at
\* most MaxLen values, the reversal of a longer one
Reordered(allValues) ==
    IF Len(allValues) <= MaxLen
    THEN {[i \in DOMAIN allValues |-> allValues[p[i]]] :
             p \in Permutations(DOMAIN allValues)}
    ELSE {[i \in DOMAIN allValues |-> allValues[Len(allValues) + 1 - i]]}

\* the history with another number of failed runs: none, one more at
\* either end, one more after its first value
OtherFailedRuns(allValues) ==
    {SelectSeq(allValues, LAMBDA v : v >= 0),
     <<-1>> \o allValues,
     allValues \o <<-1>>,
     SubSeq(allValues, 1, 1) \o <<-1>> \o SubSeq(allValues, 2, Len(allValues))}

\* C30: with lowerIsBetter = true and a history H, a value a <= b never
\* gets a smaller percentage than b, and the percentage of a value is the
\* same for H in any other order and for H with another number of negative
\* elements, provided H holds a non-negative element.
C30_MonotoneOrderFree ==
    (beatPc = "done" /\ beatArgs.isBetterLower /\ beatArgs.value >= 0
     /\ ValidIndices(beatArgs.allValues) # {})
        => /\ beatResult # null
           /\ \A a \in 0 .. beatArgs.value :
                 LET pa == calculateBeatPercentage(a, beatArgs.allValues, TRUE)
                 IN  pa # null /\ pa[1] >= beatResult[1]
           /\ \A H \in Reordered(beatArgs.allValues) \cup OtherFailedRuns(beatArgs.allValues) :
                 calculateBeatPercentage(beatArgs.value, H, TRUE) = beatResult

\* a call whose history holds a failed run between a value it beats and a
\* value it does not, and a smaller value that beats both
C30_Witness ==
    /\ beatPc = "done"
    /\ beatArgs.isBetterLower
    /\ beatArgs.value = 1
    /\ beatArgs.allValues = <<2, -1, 0>>
    /\ beatResult = Num(50)
    /\ calculateBeatPercentage(0, beatArgs.allValues, TRUE) = Num(50)
    /\ calculateBeatPercentage(2, beatArgs.allValues, TRUE) = Num(0)

---------------------------------------------------------------------------
(* Properties of the ranking at submit, checked under SpecRanking *)

\* the percentage of line 126 for entry k of the log, its metric read by
\* field, ranked against the entries of pool (indices of the log)
RankAmong(log, k, field, pool) ==
    IF log[k][field] < 0 \/ pool = {} THEN null
    ELSE Num(RoundedPercent(
               Cardinality({j \in pool : log[j][field] > log[k][field]}),
               Cardinality(pool)))

\* entries up to k whose own field is a valid measurement
ValidInField(log, k, field) == {j \in 1 .. k : log[j][field] >= 0}

\* entries up to k with no -1 in either field, and k itself
ValidInBoth(log, k) ==
    {j \in 1 .. k : j = k \/ (log[j].runtime >= 0 /\ log[j].memory >= 0)}

\* C4 as amended: a stored submission with runtime -1 is outside the pool of
\* beatRuntimePct of every later submit and one with memory -1 is outside the
\* pool of beatMemoryPct, each pool filtered by its own field only; the
\* submission stays in the log: check returns it and an unfiltered stats
\* counts it.
C4_FailedFieldExcludedPerPool ==
    /\ \A k \in DOMAIN submissions :
          /\ submissions[k].beatRuntimePct =
                RankAmong(submissions, k, "runtime",
                          ValidInField(submissions, k, "runtime"))
          /\ submissions[k].beatMemoryPct =
                RankAmong(submissions, k, "memory",
                          ValidInField(submissions, k, "memory"))
    /\ (response.handler = "check" /\ submissions # << >>)
          => response.body.latest = <<submissions[Len(submissions)]>>
    /\ (response.handler = "stats" /\ response.request = << >>)
          => response.body.totalSubmissions = Len(submissions)

\* a run without runtime, then a slower and a faster run: the faster one
\* beats one of the two valid runtimes, and the log still holds all three
C4_Witness ==
    /\ Len(submissions) = 3
    /\ submissions[1].runtime = FailedRun /\ submissions[1].memory >= 0
    /\ submissions[2].runtime > submissions[3].runtime
    /\ submissions[3].beatRuntimePct = Num(50)
    /\ response.handler = "stats" /\ response.request = << >>
    /\ response.body.totalSubmissions = 3

\* C4 as stated: a stored submission with -1 in either field is outside the
\* pool of both percentages of every later submit.
C4_ExcludedFromBothPools ==
    \A k \in DOMAIN submissions :
       /\ submissions[k].beatRuntimePct =
             RankAmong(submissions, k, "runtime", ValidInBoth(submissions, k))
       /\ submissions[k].beatMemoryPct =
             RankAmong(submissions, k, "memory", ValidInBoth(submissions, k))

\* C5: the pool of a submit is the whole log after its own entry was pushed,
\* whatever the problemId: the percentages answered are ranked against every
\* stored entry, a submit with runtime >= 0 gets a non-null beatRuntimePct,
\* and a first submission with both metrics valid gets 0 for both.
C5_PoolIsWholeLogAfterPush ==
    /\ response.handler = "submit" =>
          LET n == Len(submissions)
          IN  /\ response.body.beatRuntimePct =
                    RankAmong(submissions, n, "runtime",
                              ValidInField(submissions, n, "runtime"))
              /\ response.body.beatMemoryPct =
                    RankAmong(submissions, n, "memory",
                              ValidInField(submissions, n, "memory"))
    /\ \A k \in DOMAIN submissions :
          submissions[k].runtime >= 0 => submissions[k].beatRuntimePct # null
    /\ (submissions # << >> /\ submissions[1].runtime >= 0
                            /\ submissions[1].memory >= 0)
          => (submissions[1].beatRuntimePct = Num(0)
              /\ submissions[1].beatMemoryPct = Num(0))

\* the answer to a submit that beat the one earlier entry, of another problem
C5_Witness ==
    /\ response.handler = "submit"
    /\ Len(submissions) = 2
    /\ submissions[1].problemId # submissions[2].problemId
    /\ submissions[1].beatRuntimePct = Num(0)
    /\ response.body.beatRuntimePct = Num(50)

---------------------------------------------------------------------------
(* Properties of the log handlers, checked under SpecSubmissions *)

\* an entry with its status blanked
WithoutStatus(s) == [s EXCEPT !.status = ""]

\* C6: the log is append-only: no step shortens it, a submit adds exactly one
\* entry at the end, stored entries keep their position and every field but
\* status, and a status changes to "read" only.
C6_AppendOnly ==
    [][/\ Len(submissions') >= Len(submissions)
       /\ response'.handler = "submit" => Len(submissions') = Len(submissions) + 1
       /\ response'.handler # "submit" => Len(submissions') = Len(submissions)
       /\ \A i \in DOMAIN submissions :
             /\ WithoutStatus(submissions'[i]) = WithoutStatus(submissions[i])
             /\ submissions'[i].status \in {submissions[i].status, "read"}]_vars

\* an entry that was marked read, followed by a later entry
C6_Witness ==
    /\ Len(submissions) = 2
    /\ submissions[1].status = "read"
    /\ submissions[2].status = "pending"

\* C7: check answers null iff the log is empty, otherwise the entry appended
\* last, read or not, and leaves the log as it was.
C7_CheckReturnsLatest ==
    [][response'.handler = "check" =>
          /\ submissions' = submissions
          /\ response'.body.latest = null <=> submissions = << >>
          /\ submissions # << >> =>
                response'.body.latest = <<submissions[Len(submissions)]>>]_vars

\* a check that returned the second entry after it had been marked read
C7_Witness ==
    /\ response.handler = "check"
    /\ Len(submissions) = 2
    /\ response.body.latest # null
    /\ response.body.latest[1].status = "read"
    /\ response.body.latest[1] = submissions[2]

\* C8: mark_read answers {status: "ok"}; it changes nothing of an empty log,
\* sets the status of the last entry of a non-empty one to "read" and leaves
\* the rest alone, and a second call right after the first changes nothing.
C8_MarkReadLastOnly ==
    [][response'.handler = "mark_read" =>
          /\ response'.body = [status |-> "ok"]
          /\ Len(submissions') = Len(submissions)
          /\ \A i \in DOMAIN submissions :
                submissions'[i] =
                   IF i = Len(submissions)
                   THEN [submissions[i] EXCEPT !.status = "read"]
                   ELSE submissions[i]
          /\ response.handler = "mark_read" => submissions' = submissions]_vars

\* mark_read answered on a log of two whose first entry is still unread
C8_Witness ==
    /\ response.handler = "mark_read"
    /\ response.body = [status |-> "ok"]
    /\ Len(submissions) = 2
    /\ submissions[1].status = "pending"
    /\ submissions[2].status = "read"

---------------------------------------------------------------------------
(* Properties of the problem catalog, checked under SpecProblems *)

\* no two entries of the catalog have the same id
DistinctIds(db) == \A i, j \in DOMAIN db : i # j => db[i].id # db[j].id

\* positions of the catalog that hold the id
PositionsOf(db, id) == {i \in DOMAIN db : db[i].id = id}

\* C9: from a catalog of pairwise distinct ids every POST /api/problems
\* leaves the ids pairwise distinct: an upsert of a stored id replaces that
\* entry in place, length and position kept, an upsert of a new id appends
\* exactly one entry, and the same upsert once more changes nothing.
C9_UpsertKeepsIdsUnique ==
    [][/\ DistinctIds(problemsDatabase) => DistinctIds(problemsDatabase')
       /\ (response'.handler = "upsert" /\ response'.code # 400) =>
             LET id == response'.request.id
                 at == PositionsOf(problemsDatabase, id)
                 n == Len(problemsDatabase)
             IN  IF at # {}
                 THEN /\ Len(problemsDatabase') = n
                      /\ PositionsOf(problemsDatabase', id) = at
                      /\ \A i \in DOMAIN problemsDatabase \ at :
                            problemsDatabase'[i] = problemsDatabase[i]
                 ELSE /\ Len(problemsDatabase') = n + 1
                      /\ SubSeq(problemsDatabase', 1, n) = problemsDatabase
                      /\ problemsDatabase'[n + 1].id = id
       /\ (/\ response.handler = "upsert" /\ response.code # 400
           /\ response'.handler = "upsert"
           /\ response'.request = response.request)
             => problemsDatabase' = problemsDatabase]_vars

\* the default catalog after problem "101" was replaced in place and the
\* number 101 was pushed as a new id
C9_Witness ==
    /\ response.handler = "upsert" /\ response.code = 200
    /\ Len(problemsDatabase) = 4
    /\ problemsDatabase[1].id = JsString("101")
    /\ problemsDatabase[1].title = JsString("Title B")
    /\ problemsDatabase[2] = DEFAULT_PROBLEMS[2]
    /\ problemsDatabase[4].id = JsNumber(101)

\* the key is missing from the body or is the empty string
MissingOrEmpty(body, key) == key \notin DOMAIN body \/ body[key] = JsString("")

\* testCases is an array with at least one element
NonEmptyArray(body) ==
    /\ "testCases" \in DOMAIN body
    /\ "array" \in DOMAIN body.testCases
    /\ body.testCases.array # << >>

RECURSIVE DecimalText(_)
DecimalText(n) ==
    LET digit == <<"0", "1", "2", "3", "4", "5", "6", "7", "8", "9">>[(n % 10) + 1]
    IN  IF n < 10 THEN digit ELSE DecimalText(n \div 10) \o digit

\* the path segment a client writes for the id it upserted
RouteOf(id) == IF "string" \in DOMAIN id THEN id.string ELSE DecimalText(id.number)

\* C11: GET /api/problem/:id answers 404 if and only if no catalog entry has
\* that id, and a GET of id X right after a POST /api/problems that answered
\* success for X returns the title, description and testCases of that upsert.
C11_FetchReturnsUpserted ==
    [][response'.handler = "problem" =>
          /\ response'.code = 404
                <=> PositionsOf(problemsDatabase,
                                JsString(response'.request.problemId)) = {}
          /\ (/\ response.handler = "upsert" /\ response.code = 200
              /\ response'.request.problemId = RouteOf(response.request.id))
                => /\ response'.code = 200
                   /\ response'.body.title = response.request.title
                   /\ response'.body.description = response.request.description
                   /\ response'.body.testCases = response.request.testCases]_vars

\* C12: after a POST /api/problems that answered success the problems file
\* holds the whole current catalog: it was written once, in the handler, and
\* its text parses back to every entry of problemsDatabase in catalog order.
C12_FileHoldsWholeCatalog ==
    (response.handler = "upsert" /\ response.code = 200)
        => /\ response.writes = 1
           /\ problemsFile.state = "written"
           /\ JSONparse(problemsFile.text) = problemsDatabase

\* a saved upsert that made the catalog five entries long, after the file
\* of the default catalog had been written
C12_Witness ==
    /\ response.handler = "upsert" /\ response.code = 200
    /\ Len(problemsDatabase) = 5
    /\ problemsFile.state = "written"
    /\ Len(JSONparse(problemsFile.text)) = 5

\* C13: a POST /api/problems whose file write fails answers 500, calls the
\* write once, and leaves the in-memory catalog as it was before the request.
C13_FailedWriteLeavesCatalog ==
    [][(response'.handler = "upsert" /\ response'.code = 500) =>
          /\ response'.writes = 1
          /\ problemsDatabase' = problemsDatabase]_vars

---------------------------------------------------------------------------
(* Properties of the statistics, checked under SpecSubmissions *)

\* positions of the log the query selects
StatsMatching(log, query) ==
    {i \in DOMAIN log :
        \/ ~Has(query, "problemId")
        \/ query.problemId = ""
        \/ log[i].problemId = query.problemId}

\* those of them with both measurements valid
StatsMatchingValid(log, query) ==
    {i \in StatsMatching(log, query) : log[i].runtime >= 0 /\ log[i].memory >= 0}

\* C14: stats reports totalSubmissions = the number of stored submissions
\* the query selects, validSubmissions = the number of those with runtime >= 0
\* and memory >= 0, and a history that holds exactly the valid ones, one
\* entry each, in non-decreasing timestamp order.
C14_StatsCountsAndHistory ==
    response.handler = "stats" =>
       LET valid == StatsMatchingValid(submissions, response.request)
           history == response.body.history
       IN  /\ response.body.totalSubmissions =
                 Cardinality(StatsMatching(submissions, response.request))
           /\ response.body.validSubmissions = Cardinality(valid)
           /\ Len(history) = response.body.validSubmissions
           /\ response.body.validSubmissions <= response.body.totalSubmissions
           /\ \A i, j \in DOMAIN history :
                 i < j => history[i].timestamp <= history[j].timestamp
           /\ \E f \in [DOMAIN history -> valid] :
                 /\ \A i, j \in DOMAIN history : i # j => f[i] # f[j]
                 /\ \A i \in DOMAIN history :
                       /\ history[i].timestamp = submissions[f[i]].timestamp
                       /\ history[i].runtime = submissions[f[i]].runtime
                       /\ history[i].memory.num = submissions[f[i]].memory
                       /\ history[i].memory.den = BytesPerMB

\* unfiltered stats over two valid submissions stored later-first
C14_Witness ==
    /\ response.handler = "stats"
    /\ ~Has(response.request, "problemId")
    /\ Len(submissions) = 2
    /\ submissions[1].timestamp > submissions[2].timestamp
    /\ response.body.validSubmissions = 2
    /\ response.body.history[1].timestamp = submissions[2].timestamp

\* C24: when the web page has obtained an entry from GET /api/check, the
\* entry a later POST /api/mark_read marks read is that entry and no other,
\* whatever POST /api/submit requests come in between.
C24_MarkReadMarksPolled ==
    [][\A i \in DOMAIN submissions :
          (/\ polled # null
           /\ Len(submissions') = Len(submissions)
           /\ submissions[i].status # "read"
           /\ submissions'[i].status = "read")
             => i = polled[1]]_vars

\* C25: GET /api/stats, with or without a problemId, leaves the log with
\* the same entries in the same order, so that its latest entry, the one
\* GET /api/check answers, is the same before and after.
C25_StatsLeavesLog ==
    [][response'.handler = "stats"
          => /\ submissions' = submissions
             /\ Len(submissions) > 0 => Latest(submissions') = Latest(submissions)]_vars

\* stats answered for problem 101 over a log of two valid entries of it
\* that are not in the order of their timestamps
C25_Witness ==
    /\ response.handler = "stats"
    /\ Has(response.request, "problemId")
    /\ response.request.problemId = "101"
    /\ Len(submissions) = 2
    /\ submissions[1].timestamp > submissions[2].timestamp
    /\ response.body.validSubmissions = 2

---------------------------------------------------------------------------
(* The span locators of the extension, extension.ts lines 1681-1805.       *)
(* A text is a sequence of one-character strings; offsets count from 0 as  *)
(* in JavaScript; a vscode.Range is [start, end] in offsets, positionAt    *)
(* being one-to-one on the offsets of a document.                          *)

\* text[i], "" for the undefined of an offset outside the text
CharAt(text, i) == IF i >= 0 /\ i < Len(text) THEN text[i + 1] ELSE ""

\* \w and \s of a regular expression
IsWordChar(c) ==
    c \in {"a", "b", "c", "d", "e", "f", "g", "h", "i", "j", "k", "l", "m",
          "n", "o", "p", "q", "r", "s", "t", "u", "v", "w", "x", "y", "z",
          "A", "B", "C", "D", "E", "F", "G", "H", "I", "J", "K", "L", "M",
          "N", "O", "P", "Q", "R", "S", "T", "U", "V", "W", "X", "Y", "Z",
          "0", "1", "2", "3", "4", "5", "6", "7", "8", "9", "_"}
IsSpace(c) == c \in {" ", "\t", "\n", "\r"}

\* \b at offset i
WordBoundary(text, i) == IsWordChar(CharAt(text, i - 1)) # IsWordChar(CharAt(text, i))

\* the characters of word stand at offset i
StartsWith(text, i, word) ==
    /\ i + Len(word) <= Len(text)
    /\ \A k \in 1 .. Len(word) : text[i + k] = word[k]

RECURSIVE SkipSpaces(_, _)
\* the offset after \s* matched greedily at i
SkipSpaces(text, i) == IF IsSpace(CharAt(text, i)) THEN SkipSpaces(text, i + 1) ELSE i

RECURSIVE SkipWord(_, _)
\* the offset after \w* matched greedily at i
SkipWord(text, i) == IF IsWordChar(CharAt(text, i)) THEN SkipWord(text, i + 1) ELSE i

RECURSIVE IndexOfAny(_, _, _)
\* the first offset at or after i that holds one of chars, Len(text) if none
IndexOfAny(text, chars, i) ==
    IF i >= Len(text) \/ text[i + 1] \in chars THEN i
    ELSE IndexOfAny(text, chars, i + 1)

\* the offset after `word\s+` matched at i, -1 if it does not match; what
\* follows in both patterns starts with a word character, so \s+ takes
\* every space
AfterKeyword(text, i, word) ==
    IF StartsWith(text, i, word) /\ IsSpace(CharAt(text, i + Len(word)))
    THEN SkipSpaces(text, i + Len(word))
    ELSE -1

\* the offset after `\w+\s+` matched at i, -1 if it does not match
AfterAnyWord(text, i) ==
    LET wordEnd == SkipWord(text, i)
    IN  IF wordEnd > i /\ IsSpace(CharAt(text, wordEnd))
        THEN SkipSpaces(text, wordEnd)
        ELSE -1

\* the offsets after an optional group: skipped, or matched by after(_)
AfterOptional(from, after(_)) == from \cup ({after(i) : i \in from} \ {-1})

\* the keywords of the patterns of lines 1660, 1667, 1684 and 1743
Keyword ==
    [public |-> <<"p", "u", "b", "l", "i", "c">>,
     private |-> <<"p", "r", "i", "v", "a", "t", "e">>,
     protected |-> <<"p", "r", "o", "t", "e", "c", "t", "e", "d">>,
     internal |-> <<"i", "n", "t", "e", "r", "n", "a", "l">>,
     static |-> <<"s", "t", "a", "t", "i", "c">>,
     async |-> <<"a", "s", "y", "n", "c">>,
     sealed |-> <<"s", "e", "a", "l", "e", "d">>,
     abstract |-> <<"a", "b", "s", "t", "r", "a", "c", "t">>,
     class |-> <<"c", "l", "a", "s", "s">>]

\* public|private|protected|internal
AccessModifiers == {Keyword.public, Keyword.private, Keyword.protected, Keyword.internal}

\* new vscode.Range(startPos, endPos), lines 1736 and 1799
Range(startIndex, endIndex) == <<[start |-> startIndex, end |-> endIndex]>>

\* the offset after `NAME\s*\([^)]*\)\s*{?` matched at i, -1 if it does not
\* match (line 1743): [^)]* runs to the first ')', and the optional '{' is
\* taken whenever it is there
AfterNameAndParameters(text, i, name) ==
    IF ~StartsWith(text, i, name) THEN -1
    ELSE LET open == SkipSpaces(text, i + Len(name))
             close == IndexOfAny(text, {")"}, open + 1)
             brace == SkipSpaces(text, close + 1)
         IN  IF CharAt(text, open) # "(" \/ close >= Len(text) THEN -1
             ELSE IF CharAt(text, brace) = "{" THEN brace + 1 ELSE brace

\* the offsets where the method name may stand in a match that starts at
\* offset i: after `(public|private|protected|internal)\s+(static\s+)?
\* (async\s+)?(\w+\s+)?` (lines 1667 and 1743)
MethodNameOffsets(text, i) ==
    LET modifier == {AfterKeyword(text, i, m) : m \in AccessModifiers} \ {-1}
        static == AfterOptional(modifier, LAMBDA j : AfterKeyword(text, j, Keyword.static))
        async == AfterOptional(static, LAMBDA j : AfterKeyword(text, j, Keyword.async))
    IN  AfterOptional(async, LAMBDA j : AfterAnyWord(text, j))

\* the end of the match of methodRegex that starts at offset i, -1 if there
\* is none (line 1743). Every way of reading the optional groups puts the
\* name at the same offset, so there is at most one end.
MethodMatchEnd(text, i, name) ==
    LET ends == {AfterNameAndParameters(text, j, name) :
                    j \in MethodNameOffsets(text, i)} \ {-1}
    IN  IF WordBoundary(text, i) /\ ends # {}
        THEN CHOOSE e \in ends : \A other \in ends : other <= e
        ELSE -1

\* methodRegex.exec(text) with lastIndex (line 1746): the leftmost match at
\* or after lastIndex as <<[index, end]>>, null if there is none
MethodExec(text, name, lastIndex) ==
    LET starts == {i \in lastIndex .. Len(text) - 1 : MethodMatchEnd(text, i, name) # -1}
    IN  IF starts = {} THEN null
        ELSE LET index == CHOOSE i \in starts : \A j \in starts : i <= j
             IN  <<[index |-> index, end |-> MethodMatchEnd(text, index, name)]>>

\* the offsets where the class name may stand in a match that starts at
\* offset i: after `(public\s+|private\s+|protected\s+|internal\s+)?
\* (static\s+)?(sealed\s+)?(abstract\s+)?class\s+` (lines 1660 and 1684)
ClassNameOffsets(text, i) ==
    LET modifier == {i} \cup ({AfterKeyword(text, i, m) : m \in AccessModifiers} \ {-1})
        static == AfterOptional(modifier, LAMBDA j : AfterKeyword(text, j, Keyword.static))
        sealed == AfterOptional(static, LAMBDA j : AfterKeyword(text, j, Keyword.sealed))
        abstract == AfterOptional(sealed, LAMBDA j : AfterKeyword(text, j, Keyword.abstract))
    IN  {AfterKeyword(text, j, Keyword.class) : j \in abstract} \ {-1}

\* the match of classRegex starts at offset i (line 1684)
ClassMatchAt(text, i, name) ==
    /\ WordBoundary(text, i)
    /\ \E j \in ClassNameOffsets(text, i) :
          /\ StartsWith(text, j, name)
          /\ WordBoundary(text, j + Len(name))

\* text.match(classRegex).index (lines 1685, 1692), -1 for no match
ClassMatchIndex(text, name) ==
    LET starts == {i \in 0 .. Len(text) - 1 : ClassMatchAt(text, i, name)}
    IN  IF starts = {} THEN -1
        ELSE CHOOSE i \in starts : \A j \in starts : i <= j

\* lines 1706-1712 and 1773-1779: whether the scan is inside a quoted
\* literal once it has read char
TrackLiteral(inString, stringChar, char, prevChar) ==
    IF ~inString /\ char \in {"\"", "'"}
    THEN [inString |-> TRUE, stringChar |-> char]
    ELSE IF inString /\ char = stringChar /\ prevChar # "\\"
         THEN [inString |-> FALSE, stringChar |-> stringChar]
         ELSE [inString |-> inString, stringChar |-> stringChar]

\* the variables of the scan loop before its first iteration (lines
\* 1696-1700 and 1763-1767)
ScanFrom(index) ==
    [braceCount |-> 0, foundStartBrace |-> FALSE, endIndex |-> index,
     inString |-> FALSE, stringChar |-> ""]

RECURSIVE MatchBraces(_, _, _)
\* the for loop of lines 1702-1729 and 1769-1796 from offset i on: the
\* variables of the scan when the loop ends
MatchBraces(text, i, scan) ==
    IF i >= Len(text) THEN scan
    ELSE LET char == text[i + 1]
             literal == TrackLiteral(scan.inString, scan.stringChar, char,
                                     CharAt(text, i - 1))
             tracked == [scan EXCEPT !.inString = literal.inString,
                                     !.stringChar = literal.stringChar]
         IN  IF literal.inString THEN MatchBraces(text, i + 1, tracked)
             ELSE IF char = "{"
                  THEN MatchBraces(text, i + 1,
                          [tracked EXCEPT !.foundStartBrace = TRUE,
                                          !.endIndex = IF scan.foundStartBrace
                                                       THEN scan.endIndex ELSE i + 1,
                                          !.braceCount = scan.braceCount + 1])
                  ELSE IF char = "}"
                       THEN IF scan.foundStartBrace /\ scan.braceCount - 1 = 0
                            THEN [tracked EXCEPT !.endIndex = i + 1,
                                                 !.braceCount = 0]
                            ELSE MatchBraces(text, i + 1,
                                    [tracked EXCEPT !.braceCount = scan.braceCount - 1])
                       ELSE MatchBraces(text, i + 1, tracked)

\* _findClassRange, lines 1681-1737
findClassRange(text, className) ==
    LET classStartIndex == ClassMatchIndex(text, className)
        scan == MatchBraces(text, classStartIndex, ScanFrom(classStartIndex))
    IN  IF classStartIndex = -1 THEN null
        ELSE IF ~scan.foundStartBrace THEN null
             ELSE Range(classStartIndex, scan.endIndex)

RECURSIVE MethodRangeFrom(_, _, _)
\* the while loop of lines 1746-1802 with methodRegex.lastIndex = lastIndex
MethodRangeFrom(text, methodName, lastIndex) ==
    LET \* lines 1798-1801, with the variables of the scan when its loop ended
        Scanned(match, scan) ==
            IF scan.foundStartBrace
            THEN Range(match.index, scan.endIndex)
            ELSE MethodRangeFrom(text, methodName, match.end)
        \* lines 1758-1796, with the offset the scan of lines 1753-1755 stopped at
        SignatureEndsAt(match, methodSignatureEnd) ==
            IF CharAt(text, methodSignatureEnd) = ";"
            THEN MethodRangeFrom(text, methodName, match.end)
            ELSE Scanned(match, MatchBraces(text, methodSignatureEnd,
                                            ScanFrom(methodSignatureEnd)))
        \* lines 1746-1755, with what methodRegex.exec returned
        Matched(match) ==
            IF match = null THEN null
            ELSE SignatureEndsAt(match[1],
                                 IndexOfAny(text, {"{", ";"}, match[1].end))
    IN  Matched(MethodExec(text, methodName, lastIndex))

\* _findMethodRange, lines 1740-1805
findMethodRange(text, methodName) == MethodRangeFrom(text, methodName, 0)

\* methodMatch[5] of line 1667 (the same pattern is matched at line 1025):
\* the word before `\s*\(` in the leftmost match, << >> if the pattern does
\* not match
DetectedMethodName(text) ==
    LET names(i) == {j \in MethodNameOffsets(text, i) :
                        /\ IsWordChar(CharAt(text, j))
                        /\ CharAt(text, SkipSpaces(text, SkipWord(text, j))) = "("}
        starts == {i \in 0 .. Len(text) - 1 : WordBoundary(text, i) /\ names(i) # {}}
    IN  IF starts = {} THEN << >>
        ELSE LET j == CHOOSE n \in names(CHOOSE i \in starts :
                                         \A k \in starts : i <= k) : TRUE
             IN  SubSeq(text, j + 1, SkipWord(text, j))

RECURSIVE EnclosingBrace(_, _, _)
\* the loop of lines 1001-1014 from offset i down: the offset of the '{'
\* it stops at, -1 if it finds none
EnclosingBrace(text, i, braceCount) ==
    IF i < 0 THEN -1
    ELSE IF CharAt(text, i) = "}" THEN EnclosingBrace(text, i - 1, braceCount + 1)
    ELSE IF CharAt(text, i) = "{"
         THEN IF braceCount = 0 THEN i
              ELSE EnclosingBrace(text, i - 1, braceCount - 1)
    ELSE EnclosingBrace(text, i - 1, braceCount)

RECURSIVE SignatureStart(_, _, _)
\* the loop of lines 1022-1032 from offset i down: methodSignatureStart,
\* which stays methodStartPos when no line break or ';' is found whose
\* preceding 50 characters hold a method signature
SignatureStart(text, i, methodStartPos) ==
    IF i < 0 THEN methodStartPos
    ELSE IF /\ CharAt(text, i) \in {"\n", ";"}
            /\ DetectedMethodName(SubSeq(text, (IF i > 50 THEN i - 50 ELSE 0) + 1, i))
                  # << >>
         THEN i + 1
         ELSE SignatureStart(text, i - 1, methodStartPos)

RECURSIVE ClosingBrace(_, _, _, _)
\* the loop of lines 1040-1063 from offset i on: endOffset, -1 when the
\* loop ends with braceCount # 0
ClosingBrace(text, i, braceCount, literal) ==
    IF i >= Len(text) THEN -1
    ELSE LET Tracked(now) ==
                 IF now.inString THEN ClosingBrace(text, i + 1, braceCount, now)
                 ELSE IF text[i + 1] = "{"
                      THEN ClosingBrace(text, i + 1, braceCount + 1, now)
                 ELSE IF text[i + 1] = "}"
                      THEN IF braceCount - 1 = 0 THEN i + 1
                           ELSE ClosingBrace(text, i + 1, braceCount - 1, now)
                 ELSE ClosingBrace(text, i + 1, braceCount, now)
         IN  Tracked(TrackLiteral(literal.inString, literal.stringChar,
                                  text[i + 1], CharAt(text, i - 1)))

\* _detectFunctionAtPosition, lines 990-1077: the range of the result, null
\* for a null result (the code of the result is the text of that range)
detectFunctionAtPosition(text, offset) ==
    LET Found(methodStartPos) ==
            LET Ended(endOffset) ==
                    IF endOffset = -1 THEN null
                    ELSE Range(SignatureStart(text, methodStartPos - 1, methodStartPos),
                               endOffset)
            IN  IF methodStartPos = -1 THEN null
                ELSE Ended(ClosingBrace(text, methodStartPos + 1, 1,
                                        [inString |-> FALSE, stringChar |-> ""]))
    IN  Found(EnclosingBrace(text, offset, 0))

---------------------------------------------------------------------------
(* The locators called on a document: texts and names to locate *)

\* most body characters that follow a declaration in an enumerated text
MaxBody == 4

\* every body of up to n characters: braces, the statement end, the two
\* quotes and the escape character
RECURSIVE Bodies(_)
Bodies(n) ==
    IF n = 0 THEN {<< >>}
    ELSE Bodies(n - 1) \cup {Append(b, c) : b \in {x \in Bodies(n - 1) : Len(x) = n - 1},
                                            c \in {"{", "}", ";", "\"", "'", "\\"}}

\* the declarations a body follows
Declarations ==
    {\* "public void M()"
     <<"p", "u", "b", "l", "i", "c", " ", "v", "o", "i", "d", " ", "M",
      "(", ")">>,
     \* "public void M();public void M()": a bodiless declaration, then another
     <<"p", "u", "b", "l", "i", "c", " ", "v", "o", "i", "d", " ", "M",
      "(", ")", ";", "p", "u", "b", "l", "i", "c", " ", "v", "o", "i",
      "d", " ", "M", "(", ")">>,
     \* "void M()": no access modifier
     <<"v", "o", "i", "d", " ", "M", "(", ")">>,
     \* "class C"
     <<"c", "l", "a", "s", "s", " ", "C">>,
     \* "public static class C "
     <<"p", "u", "b", "l", "i", "c", " ", "s", "t", "a", "t", "i", "c",
      " ", "c", "l", "a", "s", "s", " ", "C", " ">>}

\* whole documents
Example ==
    [\* "public int Add(int a,int b){ return a+b; }"
     Add |->
        <<"p", "u", "b", "l", "i", "c", " ", "i", "n", "t", " ", "A", "d",
         "d", "(", "i", "n", "t", " ", "a", ",", "i", "n", "t", " ", "b",
         ")", "{", " ", "r", "e", "t", "u", "r", "n", " ", "a", "+", "b",
         ";", " ", "}">>,
     \* "public void M(){ var s="{"; }"
     QuotedBrace |->
        <<"p", "u", "b", "l", "i", "c", " ", "v", "o", "i", "d", " ", "M",
         "(", ")", "{", " ", "v", "a", "r", " ", "s", "=", "\"", "{",
         "\"", ";", " ", "}">>,
     \* "void M();"
     Interface |->
        <<"v", "o", "i", "d", " ", "M", "(", ")", ";">>,
     \* "class C{ string s = "}"; public void M(){ if (x) { F(); } } }"
     Class |->
        <<"c", "l", "a", "s", "s", " ", "C", "{", " ", "s", "t", "r", "i",
         "n", "g", " ", "s", " ", "=", " ", "\"", "}", "\"", ";", " ",
         "p", "u", "b", "l", "i", "c", " ", "v", "o", "i", "d", " ", "M",
         "(", ")", "{", " ", "i", "f", " ", "(", "x", ")", " ", "{", " ",
         "F", "(", ")", ";", " ", "}", " ", "}", " ", "}">>,
     \* "class C{string s="\\";}": a literal that ends with an escaped backslash
     EscapedBackslash |->
        <<"c", "l", "a", "s", "s", " ", "C", "{", "s", "t", "r", "i", "n",
         "g", " ", "s", "=", "\"", "\\", "\\", "\"", ";", "}">>]

\* the documents the locators are called on
LocatorTexts ==
    {d \o b : d \in Declarations, b \in Bodies(MaxBody)}
        \cup {Example[f] : f \in DOMAIN Example}

\* the back end with nothing stored, while the extension is looked at
ServerIdle ==
    /\ submissions = << >>
    /\ problemsDatabase = << >>
    /\ problemsFile = << >>
    /\ response = NoResponse
    /\ beatArgs = NoBeatArgs
    /\ beatResult = null
    /\ beatPc = "idle"
    /\ polled = null

LocatorInit ==
    /\ ServerIdle
    /\ document \in LocatorTexts
    /\ located = [kind |-> "none"]
    /\ apply = [pc |-> "idle"]
    /\ client = [pc |-> "idle"]

\* this._findMethodRange(document, methodName)
FindMethod(methodName) ==
    /\ located.kind = "none"
    /\ located' = [kind |-> "method", name |-> methodName,
                   range |-> findMethodRange(document, methodName)]
    /\ UNCHANGED <<document, apply, client>>
    /\ UNCHANGED serverVars

\* this._findClassRange(document, className)
FindClass(className) ==
    /\ located.kind = "none"
    /\ located' = [kind |-> "class", name |-> className,
                   range |-> findClassRange(document, className)]
    /\ UNCHANGED <<document, apply, client>>
    /\ UNCHANGED serverVars

\* this._detectFunctionAtPosition(document, position) of line 770, with the
\* cursor at an offset of the document
DetectFunction(offset) ==
    /\ located.kind = "none"
    /\ located' = [kind |-> "function", offset |-> offset,
                   range |-> detectFunctionAtPosition(document, offset)]
    /\ UNCHANGED <<document, apply, client>>
    /\ UNCHANGED serverVars

LocatorNext ==
    \/ \E methodName \in {<<"M">>, <<"A", "d", "d">>} : FindMethod(methodName)
    \/ \E className \in {<<"C">>} : FindClass(className)
    \/ \E offset \in 0 .. Len(document) : DetectFunction(offset)

SpecLocator == LocatorInit /\ [][LocatorNext]_vars

---------------------------------------------------------------------------
(* Properties of the span locators, checked under SpecLocator *)

RECURSIVE BackOverSpaces(_, _)
\* the offset i moved back over the white space before it
BackOverSpaces(text, i) ==
    IF IsSpace(CharAt(text, i - 1)) THEN BackOverSpaces(text, i - 1) ELSE i

\* offsets where a declaration of the method starts
MethodOccurrences(text, name) ==
    {i \in 0 .. Len(text) - 1 : MethodMatchEnd(text, i, name) # -1}

\* the offset after the ')' that ends the signature of the occurrence at i
SignatureEnd(text, i, name) ==
    LET e == MethodMatchEnd(text, i, name)
    IN  BackOverSpaces(text, IF CharAt(text, e - 1) = "{" THEN e - 1 ELSE e)

\* the occurrence at i has a body: a '{' comes before any ';' after its
\* signature
HasBody(text, i, name) ==
    CharAt(text, IndexOfAny(text, {"{", ";"}, SignatureEnd(text, i, name))) = "{"

\* the literal-aware brace scan from offset from on
BodyScan(text, from) == MatchBraces(text, from, ScanFrom(from))

\* the scan found an opening brace and stopped at the '}' that matches it
Closed(text, scan) ==
    scan.foundStartBrace /\ CharAt(text, scan.endIndex - 1) = "}"

\* the least element of a non-empty set of offsets
First(offsets) == CHOOSE i \in offsets : \A j \in offsets : i <= j

\* where the literal-aware scan of the located symbol starts: the end of
\* the signature of the first method occurrence that has a body, the start
\* of the class declaration; -1 if there is no such symbol
SymbolScanStart(text, call) ==
    IF call.kind = "method"
    THEN LET bodies == {i \in MethodOccurrences(text, call.name) :
                           HasBody(text, i, call.name)}
         IN  IF bodies = {} THEN -1
             ELSE SignatureEnd(text, First(bodies), call.name)
    ELSE ClassMatchIndex(text, call.name)

\* C15: for "public int Add(int a,int b){ return a+b; }" and the name Add
\* the method locator returns a span, and the span covers exactly the body
\* "{ return a+b; }", from the opening brace to its matching closing brace.
C15_AddBodySpan ==
    (located.kind = "method" /\ located.name = <<"A", "d", "d">> /\ document = Example.Add)
        => located.range =
              Range(IndexOfAny(document, {"{"}, 0),
                    BodyScan(document, SignatureEnd(document, 0, <<"A", "d", "d">>)).endIndex)

\* C16: braces inside a quoted literal do not change the depth: whenever the
\* literal-aware scan of the located symbol, method or class, finds the
\* closing brace that matches its first unquoted opening brace, the locator
\* returns a span that ends right after that closing brace.
C16_QuotedBracesIgnored ==
    (located.kind \in {"method", "class"}
       /\ \E k \in DOMAIN document : document[k] \in {"\"", "'"}
       /\ SymbolScanStart(document, located) # -1
       /\ Closed(document, BodyScan(document, SymbolScanStart(document, located))))
        => /\ located.range # null
           /\ located.range[1].end =
                 BodyScan(document, SymbolScanStart(document, located)).endIndex

\* C17: the method locator returns NotFound when the name has no occurrence
\* with a body, bodiless occurrences included; otherwise it skips the
\* bodiless occurrences and returns a span that starts at the first
\* occurrence that has a (balanced) body.
C17_FirstOccurrenceWithBody ==
    located.kind = "method" =>
       LET bodies == {i \in MethodOccurrences(document, located.name) :
                         HasBody(document, i, located.name)}
       IN  IF bodies = {} THEN located.range = null
           ELSE Closed(document,
                       BodyScan(document,
                                SignatureEnd(document, First(bodies), located.name)))
                   => /\ located.range # null
                      /\ located.range[1].start = First(bodies)

\* C18: when the depth never returns to 0 after the opening brace of the
\* located symbol, the method locator and the class locator return NotFound.
C18_UnbalancedIsNotFound ==
    (located.kind \in {"method", "class"}
       /\ SymbolScanStart(document, located) # -1
       /\ ~Closed(document, BodyScan(document, SymbolScanStart(document, located))))
        => located.range = null

RECURSIVE Literals(_, _, _, _)
\* the three-state machine of a literal-aware scan read from offset i on,
\* open being the quote of the literal it is in ("" in normal state) and
\* escaped telling that the last character was an unescaped backslash of
\* the literal: the state after each character
Literals(text, i, open, escaped) ==
    IF i >= Len(text) THEN << >>
    ELSE LET c == text[i + 1]
             next == IF open = "" THEN (IF c \in {"\"", "'"} THEN c ELSE "")
                     ELSE IF ~escaped /\ c = open THEN "" ELSE open
         IN  <<next>> \o Literals(text, i + 1, next,
                                  open # "" /\ ~escaped /\ c = "\\")

\* +1 for an unquoted '{' at offset k, -1 for an unquoted '}', 0 otherwise,
\* in a scan that starts at offset from
BraceAt(text, from, k) ==
    IF Literals(text, from, "", FALSE)[k - from + 1] # "" THEN 0
    ELSE IF text[k + 1] = "{" THEN 1
    ELSE IF text[k + 1] = "}" THEN -1
    ELSE 0

RECURSIVE DepthAfter(_, _, _)
\* the brace depth after the character at offset k
DepthAfter(text, from, k) ==
    IF k < from THEN 0
    ELSE DepthAfter(text, from, k - 1) + BraceAt(text, from, k)

\* every literal is closed and every unquoted brace has its match
Balanced(text, from) ==
    /\ \A k \in from .. Len(text) - 1 : DepthAfter(text, from, k) >= 0
    /\ DepthAfter(text, from, Len(text) - 1) = 0
    /\ (from < Len(text) => Literals(text, from, "", FALSE)[Len(text) - from] = "")

\* offsets of the unquoted '{' at or after from
OpeningBraces(text, from) ==
    {k \in from .. Len(text) - 1 : BraceAt(text, from, k) = 1}

\* the offset after the '}' that matches the first unquoted '{'
MatchingEnd(text, from) ==
    LET open == First(OpeningBraces(text, from))
    IN  1 + First({k \in open + 1 .. Len(text) - 1 :
                      DepthAfter(text, from, k) = DepthAfter(text, from, open) - 1})

\* C21: when the class is declared and the braces of the text are balanced,
\* the class locator returns the range from the first character of the
\* matched declaration to right after the '}' that matches the first
\* unquoted '{' after it; it returns null when the class name does not
\* occur or no unquoted '{' follows it.
C21_ClassRangeBalanced ==
    located.kind = "class" =>
       LET start == ClassMatchIndex(document, located.name)
       IN  IF start = -1 \/ OpeningBraces(document, start) = {}
           THEN located.range = null
           ELSE Balanced(document, start) =>
                   located.range = Range(start, MatchingEnd(document, start))

\* C22: a quote closes the literal only if it is the quote that opened it
\* and is not escaped by a backslash, a backslash that is itself escaped
\* escaping nothing: where the scan of the class locator reads the text to
\* its end, it ends inside a literal exactly when the three-state machine
\* does, and inside the same kind of literal.
C22_LiteralStateMachine ==
    (located.kind = "class"
       /\ ClassMatchIndex(document, located.name) # -1
       /\ \A k \in DOMAIN document : document[k] \notin {"{", "}"})
        => LET start == ClassMatchIndex(document, located.name)
               scan == BodyScan(document, start)
               state == Literals(document, start, "", FALSE)[Len(document) - start]
           IN  /\ scan.inString = (state # "")
               /\ scan.inString => scan.stringChar = state

\* C23: with the cursor inside the body of a method M, after its opening
\* brace and not after its closing brace, the function detection returns
\* the range from the start of the signature of M to right after its
\* closing brace, which contains the cursor; it returns null when there is
\* no '{' at or before the cursor.
C23_EnclosingMethodRange ==
    located.kind = "function" =>
       /\ \A i \in MethodOccurrences(document, <<"M">>) :
             LET open == IndexOfAny(document, {"{", ";"},
                                    SignatureEnd(document, i, <<"M">>))
             IN  (/\ CharAt(document, open) = "{"
                  /\ Balanced(document, open)
                  /\ open < located.offset
                  /\ located.offset < MatchingEnd(document, open))
                    => located.range = Range(i, MatchingEnd(document, open))
       /\ (\A k \in 0 .. located.offset : CharAt(document, k) # "{")
             => located.range = null

---------------------------------------------------------------------------
(* _applyCodeToEditor and _detectCodeType, extension.ts lines 1440-1678,   *)
(* for the applyCode message of the sidebar that carries code only (no     *)
(* diagnosticFix, no unitTest). A prompt is the kind of message box shown  *)
(* with its buttons; "dismissed" is the undefined a closed box resolves to.*)

\* code.trim(), line 1652
Trim(text) ==
    LET kept == {i \in 1 .. Len(text) : ~IsSpace(text[i])}
    IN  IF kept = {} THEN << >>
        ELSE SubSeq(text, CHOOSE i \in kept : \A j \in kept : i <= j,
                          CHOOSE i \in kept : \A j \in kept : j <= i)

\* text.includes(word)
Includes(text, word) == \E i \in 0 .. Len(text) : StartsWith(text, i, word)

\* the literals of lines 1654-1674: "using ", "namespace ", "class ",
\* "static void Main", "static int Main" and the name Main
Marker ==
    [using |->
        <<"u", "s", "i", "n", "g", " ">>,
     namespace |->
        <<"n", "a", "m", "e", "s", "p", "a", "c", "e", " ">>,
     class |->
        <<"c", "l", "a", "s", "s", " ">>,
     staticVoidMain |->
        <<"s", "t", "a", "t", "i", "c", " ", "v", "o", "i", "d", " ", "M", "a", "i", "n">>,
     staticIntMain |->
        <<"s", "t", "a", "t", "i", "c", " ", "i", "n", "t", " ", "M", "a", "i", "n">>,
     Main |->
        <<"M", "a", "i", "n">>]

\* classMatch[5] of line 1660: the word after `class\s+` in the leftmost
\* match, << >> if the pattern does not match
DetectedClassName(text) ==
    LET names(i) == {j \in ClassNameOffsets(text, i) : IsWordChar(CharAt(text, j))}
        starts == {i \in 0 .. Len(text) - 1 : WordBoundary(text, i) /\ names(i) # {}}
    IN  IF starts = {} THEN << >>
        ELSE LET j == CHOOSE n \in names(CHOOSE i \in starts :
                                         \A k \in starts : i <= k) : TRUE
             IN  SubSeq(text, j + 1, SkipWord(text, j))

\* _detectCodeType, lines 1651-1678; name << >> is the undefined name
detectCodeType(code) ==
    LET trimmedCode == Trim(code)
    IN  IF /\ Includes(trimmedCode, Marker.using)
           /\ (Includes(trimmedCode, Marker.namespace) \/ Includes(trimmedCode, Marker.class))
        THEN [type |-> "full_file", name |-> << >>]
        ELSE IF DetectedClassName(trimmedCode) # << >>
        THEN [type |-> "class", name |-> DetectedClassName(trimmedCode)]
        ELSE IF /\ DetectedMethodName(trimmedCode) # << >>
                /\ ~Includes(trimmedCode, Marker.class)
                /\ ~Includes(trimmedCode, Marker.namespace)
        THEN [type |-> "method", name |-> DetectedMethodName(trimmedCode)]
        ELSE IF \/ Includes(trimmedCode, Marker.staticVoidMain)
                \/ Includes(trimmedCode, Marker.staticIntMain)
        THEN [type |-> "method", name |-> Marker.Main]
        ELSE [type |-> "unknown", name |-> << >>]

\* lines 1574-1596: the range the code would replace, null if there is none
TargetRange(text, codeType) ==
    CASE codeType.type = "class" /\ codeType.name # << >> ->
            findClassRange(text, codeType.name)
      [] codeType.type = "method" /\ codeType.name # << >> ->
            findMethodRange(text, codeType.name)
      [] codeType.type = "full_file" -> Range(0, Len(text))
      [] OTHER -> null

\* builder.replace(range, code) and builder.insert(offset, code)
Replaced(text, range, code) ==
    SubSeq(text, 1, range.start) \o code \o SubSeq(text, range.end + 1, Len(text))
Inserted(text, offset, code) ==
    SubSeq(text, 1, offset) \o code \o SubSeq(text, offset + 1, Len(text))

\* the message boxes of lines 1601-1606, 1619-1624 and 1631-1635
Prompt ==
    [replace |-> [kind |-> "replace?", items |-> <<"replace", "cancel", "diff">>],
     fallback |-> [kind |-> "no match", items |-> <<"insert", "replaceFile", "cancel">>],
     confirm |-> [kind |-> "replace the whole file?", items |-> <<"ok", "cancel">>]]

\* what the user may answer to a prompt
Answers(prompt) == {prompt.items[i] : i \in DOMAIN prompt.items} \cup {"dismissed"}

\* the call after it returned
Done(ap, message) ==
    [ap EXCEPT !.pc = "done", !.prompt = null, !.shown = Append(ap.shown, message)]

\* the call waiting for the answer to a prompt
Asking(ap, pc, prompt) == [ap EXCEPT !.pc = pc, !.prompt = <<prompt>>]

\* lines 1509-1624 up to the first await: [document, apply] after
\* _applyCodeToEditor(code) was called with the editor as given
Called(text, code, selection, editorOpen) ==
    LET \* lines 1509-1513, 1562-1568 and 1598-1624
        Applying(ap) ==
            IF ~editorOpen
            THEN [document |-> text, apply |-> Done(ap, "warning: open an editor first")]
            ELSE IF selection.start # selection.end
            THEN [document |-> Replaced(text, selection, code),
                  apply |-> Done(ap, "applied to the selection")]
            ELSE IF ap.targetRange # null
            THEN [document |-> text, apply |-> Asking(ap, "askReplace", Prompt.replace)]
            ELSE [document |-> text, apply |-> Asking(ap, "askFallback", Prompt.fallback)]
        \* lines 1572-1596, with what _detectCodeType returned
        Detected(codeType) ==
            Applying([pc |-> "called", code |-> code, editorOpen |-> editorOpen,
                      selection |-> selection, codeType |-> codeType,
                      targetRange |-> TargetRange(text, codeType),
                      fullTextLength |-> Len(text), prompt |-> null,
                      shown |-> << >>, answers |-> << >>])
    IN  Detected(detectCodeType(code))

\* the target replaced on every answer but cancel
ReplaceAnsweredUnlessCancelled(text, ap, action) ==
    LET answered == [ap EXCEPT !.answers = Append(ap.answers, action)]
    IN  IF action # "cancel"
        THEN [document |-> Replaced(text, ap.targetRange[1], ap.code),
              apply |-> Done(answered, "replaced")]
        ELSE [document |-> text, apply |-> Done(answered, "")]

\* lines 1608-1616: [document, apply] after the replace prompt was answered
ReplaceAnswered(text, ap, action) ==
    LET answered == [ap EXCEPT !.answers = Append(ap.answers, action)]
    IN  IF action = "replace"
        THEN [document |-> Replaced(text, ap.targetRange[1], ap.code),
              apply |-> Done(answered, "replaced")]
        ELSE IF action = "diff"
        THEN [document |-> text, apply |-> Done(answered, "diff view")]
        ELSE [document |-> text, apply |-> Done(answered, "")]

\* the whole file replaced as soon as the fallback prompt is answered
FallbackAnsweredNoConfirm(text, ap, action) ==
    LET answered == [ap EXCEPT !.answers = Append(ap.answers, action)]
    IN  IF action = "insert"
        THEN [document |-> Inserted(text, ap.selection.active, ap.code),
              apply |-> Done(answered, "")]
        ELSE IF action = "replaceFile"
        THEN [document |-> Replaced(text, [start |-> 0, end |-> ap.fullTextLength],
                                    ap.code),
              apply |-> Done(answered, "file replaced")]
        ELSE [document |-> text, apply |-> Done(answered, "")]

\* lines 1626-1635: [document, apply] after the fallback prompt was answered
FallbackAnswered(text, ap, action) ==
    LET answered == [ap EXCEPT !.answers = Append(ap.answers, action)]
    IN  IF action = "insert"
        THEN [document |-> Inserted(text, ap.selection.active, ap.code),
              apply |-> Done(answered, "")]
        ELSE IF action = "replaceFile"
        THEN [document |-> text,
              apply |-> Asking(answered, "confirmReplaceFile", Prompt.confirm)]
        ELSE [document |-> text, apply |-> Done(answered, "")]

\* lines 1636-1645: [document, apply] after the confirmation was answered
ConfirmAnswered(text, ap, confirm) ==
    LET answered == [ap EXCEPT !.answers = Append(ap.answers, confirm)]
    IN  IF confirm = "ok"
        THEN [document |-> Replaced(text, [start |-> 0, end |-> ap.fullTextLength],
                                    ap.code),
              apply |-> Done(answered, "file replaced")]
        ELSE [document |-> text, apply |-> Done(answered, "")]

\* the documents of the active editor
ApplyDocuments ==
    {\* "class C{}"
     <<"c", "l", "a", "s", "s", " ", "C", "{", "}">>,
     \* "public void M(){{}}"
     <<"p", "u", "b", "l", "i", "c", " ", "v", "o", "i", "d", " ", "M", "(", ")", "{", "{", "}", "}">>,
     \* "x"
     <<"x">>}

\* code the sidebar may apply
Code ==
    [\* a method
     method |->
        <<"p", "u", "b", "l", "i", "c", " ", "v", "o", "i", "d", " ", "M", "(", ")", "{", "}">>,
     \* a class
     class |->
        <<" ", "c", "l", "a", "s", "s", " ", "C", "{", ";", "}">>,
     \* a Main without modifier
     main |->
        <<"s", "t", "a", "t", "i", "c", " ", "v", "o", "i", "d", " ", "M", "a", "i", "n", "(", ")", "{", "}">>,
     \* a statement
     statement |->
        <<"x", "=", "1", ";">>,
     \* a whole file
     file |->
        <<"u", "s", "i", "n", "g", " ", "S", ";", "c", "l", "a", "s", "s", " ", "P", "{", "}">>,
     \* a method the documents do not have
     otherMethod |->
        <<"p", "r", "i", "v", "a", "t", "e", " ", "s", "t", "a", "t", "i", "c", " ", "i", "n", "t", " ", "A", "d", "d", " ", "(", "i", "n", "t", " ", "a", ")", "{", "}">>]

\* editor.selection: nothing selected with the cursor at either end of the
\* text, or the first character selected
Selections(text) ==
    {[start |-> 0, end |-> 0, active |-> 0],
     [start |-> Len(text), end |-> Len(text), active |-> Len(text)],
     [start |-> 0, end |-> 1, active |-> 1]}

ApplyInit ==
    /\ ServerIdle
    /\ document \in ApplyDocuments
    /\ located = [kind |-> "none"]
    /\ apply = [pc |-> "idle"]
    /\ client = [pc |-> "idle"]

\* the applyCode message arrives (line 282) and _applyCodeToEditor runs to
\* its first await or to its end
ApplyCode(code, selection, editorOpen) ==
    /\ apply.pc = "idle"
    /\ LET Become(after) == document' = after.document /\ apply' = after.apply
       IN  Become(Called(document, code, selection, editorOpen))
    /\ UNCHANGED <<located, client>>
    /\ UNCHANGED serverVars

\* the user answers the prompt of line 1601
AnswerReplace(action) ==
    /\ apply.pc = "askReplace"
    /\ LET Become(after) == document' = after.document /\ apply' = after.apply
       IN  Become(ReplaceAnswered(document, apply, action))
    /\ UNCHANGED <<located, client>>
    /\ UNCHANGED serverVars

\* the user answers the prompt of line 1619
AnswerFallback(action) ==
    /\ apply.pc = "askFallback"
    /\ LET Become(after) == document' = after.document /\ apply' = after.apply
       IN  Become(FallbackAnswered(document, apply, action))
    /\ UNCHANGED <<located, client>>
    /\ UNCHANGED serverVars

\* the user answers the warning of line 1631
AnswerConfirm(confirm) ==
    /\ apply.pc = "confirmReplaceFile"
    /\ LET Become(after) == document' = after.document /\ apply' = after.apply
       IN  Become(ConfirmAnswered(document, apply, confirm))
    /\ UNCHANGED <<located, client>>
    /\ UNCHANGED serverVars

ApplyNext ==
    \/ \E code \in {Code[f] : f \in DOMAIN Code}, selection \in Selections(document),
          editorOpen \in BOOLEAN : ApplyCode(code, selection, editorOpen)
    \/ \E action \in Answers(Prompt.replace) : AnswerReplace(action)
    \/ \E action \in Answers(Prompt.fallback) : AnswerFallback(action)
    \/ \E confirm \in Answers(Prompt.confirm) : AnswerConfirm(confirm)

SpecApply == ApplyInit /\ [][ApplyNext]_vars

---------------------------------------------------------------------------
(* Properties of _applyCodeToEditor, checked under SpecApply *)

\* the call found an editor without a selection and no range to replace:
\* the locator returned null or the code type is unknown
NoTargetFound(ap) ==
    /\ ap.pc # "idle"
    /\ ap.editorOpen
    /\ ap.selection.start = ap.selection.end
    /\ ap.targetRange = null

\* C19: with no selection and no range found, _applyCodeToEditor changes
\* nothing by itself and asks with the choices insert, replaceFile and
\* cancel; the document then changes only by the insert at the cursor or,
\* after replaceFile was chosen and the confirmation was answered ok, by
\* the replacement of the whole text.
C19_FallbackOffered ==
    [][NoTargetFound(apply') =>
          /\ apply.pc = "idle" =>
                /\ apply'.pc = "askFallback"
                /\ apply'.prompt = <<Prompt.fallback>>
                /\ Prompt.fallback.items = <<"insert", "replaceFile", "cancel">>
                /\ document' = document
          /\ apply.pc = "askFallback" =>
                /\ apply'.answers = <<"insert">> =>
                      document' = Inserted(document, apply.selection.active, apply.code)
                /\ apply'.answers # <<"insert">> => document' = document
                /\ apply'.answers = <<"replaceFile">> <=> apply'.pc = "confirmReplaceFile"
          /\ apply.pc = "confirmReplaceFile" =>
                /\ apply'.answers = <<"replaceFile", "ok">> => document' = apply.code
                /\ apply'.answers # <<"replaceFile", "ok">> => document' = document
          /\ (document' = apply'.code /\ document # apply'.code) =>
                apply'.answers = <<"replaceFile", "ok">>]_vars

\* a method the document does not hold replaced the whole text after the
\* user chose replaceFile and confirmed
C19_Witness ==
    /\ apply.pc = "done"
    /\ NoTargetFound(apply)
    /\ apply.codeType = [type |-> "method", name |-> <<"M">>]
    /\ apply.answers = <<"replaceFile", "ok">>
    /\ document = Code.method

---------------------------------------------------------------------------
(* The network calls of the sidebar, extension.ts lines 279-295, 550-632,  *)
(* 635-742, 1247-1291 and 1320-1437. client is [history, ops]: _history,   *)
(* and one record per user action with the position of its async function,*)
(* the requests it has sent and the messages it has shown.                 *)

\* most user actions in one behaviour
MaxActions == 2

\* one message shown to the user: to the sidebar webview (postMessage) or
\* as a notification (vscode.window.show...Message)
Message(to, level) == [to |-> to, level |-> level]

\* a user action that has just begun
Op(kind, context) ==
    [kind |-> kind, context |-> context, pc |-> "start", requests |-> 0,
     posts |-> 0, fetches |-> 0, messages |-> << >>, sent |-> << >>,
     failed |-> FALSE]

\* op with one more message shown
Shown(op, to, level) == [op EXCEPT !.messages = Append(op.messages, Message(to, level))]

\* a message of _history or of a request body: the role, the user action
\* it belongs to, and what its content is: "systemPrompt", "fullMessage",
\* "summary" (lines 1332-1341) or "aiRawContent"
Entry(role, k, content) == [role |-> role, op |-> k, content |-> content]

\* the history sent after the system prompt in every mode
RequestMessagesOfHistory(history, context, k) ==
    <<Entry("system", k, "systemPrompt")>> \o history

\* lines 1389-1400: the messages of the request body
RequestMessages(history, context, k) ==
    <<Entry("system", k, "systemPrompt")>>
        \o (IF context \in {"RUNTIME_ERROR_ANALYSIS", "SYSTEM_PROBLEM_MODE"}
            THEN <<Entry("user", k, "fullMessage")>>
            ELSE history)

\* _callAiWithHistory up to its await (lines 1320-1415) for user action k:
\* the user entry is pushed, then either the missing key is reported or
\* the request is sent
CallAi(cl, k, useLocalModel, apiKey) ==
    LET op == cl.ops[k]
        history ==
            Append(cl.history,
                   Entry("user", k,
                         IF op.context \in {"RUNTIME_ERROR_ANALYSIS", "SYSTEM_PROBLEM_MODE"}
                         THEN "summary" ELSE "fullMessage"))
    IN  IF ~useLocalModel /\ ~apiKey
        THEN [history |-> history,
              ops |-> [cl.ops EXCEPT ![k] = [Shown(op, "webview", "error")
                                               EXCEPT !.pc = "done"]]]
        ELSE [history |-> history,
              ops |-> [cl.ops EXCEPT ![k] =
                         [op EXCEPT !.pc = "awaitLLM",
                                    !.requests = op.requests + 1,
                                    !.sent = RequestMessages(history, op.context, k)]]]

\* the request sent again after a failure
LLMRespondedRetry(cl, k, outcome) ==
    LET op == cl.ops[k]
    IN  IF outcome = "ok"
        THEN [history |-> Append(cl.history, Entry("assistant", k, "aiRawContent")),
              ops |-> [cl.ops EXCEPT ![k] = [Shown(op, "webview", "info")
                                               EXCEPT !.pc = "done"]]]
        ELSE [history |-> cl.history,
              ops |-> [cl.ops EXCEPT ![k] =
                         [op EXCEPT !.pc = IF op.requests < 2 THEN "awaitLLM" ELSE "done",
                                    !.requests = IF op.requests < 2 THEN op.requests + 1
                                                 ELSE op.requests,
                                    !.failed = TRUE]]]

\* _callAiWithHistory after its await (lines 1417-1436): the answer is
\* pushed and shown, or the error is shown
LLMResponded(cl, k, outcome) ==
    LET op == cl.ops[k]
    IN  IF outcome = "ok"
        THEN [history |-> Append(cl.history, Entry("assistant", k, "aiRawContent")),
              ops |-> [cl.ops EXCEPT ![k] = [Shown(op, "webview", "info")
                                               EXCEPT !.pc = "done"]]]
        ELSE [history |-> cl.history,
              ops |-> [cl.ops EXCEPT ![k] = [Shown(op, "webview", "error")
                                               EXCEPT !.pc = "done",
                                                      !.failed = TRUE]]]

\* lines 617-630: the answer of POST /api/submit is reported
SubmitResponded(op, outcome) ==
    IF outcome = "ok"
    THEN [Shown(Shown(op, "webview", "info"), "notification", "info")
            EXCEPT !.pc = "done"]
    ELSE [Shown(Shown(op, "notification", "error"), "webview", "error")
            EXCEPT !.pc = "done", !.failed = TRUE]

\* the client with user action k replaced by op
WithOp(cl, k, op) == [cl EXCEPT !.ops[k] = op]

\* the client with a new user action at the end of ops
Begun(cl, op) == [cl EXCEPT !.ops = Append(cl.ops, op)]

ClientInit ==
    /\ ServerIdle
    /\ document = << >>
    /\ located = [kind |-> "none"]
    /\ apply = [pc |-> "idle"]
    /\ client = [history |-> << >>, ops |-> << >>]

\* the askAI message of the webview (lines 284-287): _callAiWithHistory
\* with the context the webview holds, here none
AskAI(useLocalModel, apiKey) ==
    /\ Len(client.ops) < MaxActions
    /\ client' = CallAi(Begun(client, Op("askAI", "")), Len(client.ops) + 1,
                        useLocalModel, apiKey)
    /\ UNCHANGED <<document, located, apply>>
    /\ UNCHANGED serverVars

\* the loadProblem message (lines 288-290): _handleLoadProblem runs to the
\* await of _scrapeLuogu for a luogu link, and into _callAiWithHistory
\* otherwise (lines 1247-1282)
LoadProblem(luogu, apiKey) ==
    /\ Len(client.ops) < MaxActions
    /\ LET k == Len(client.ops) + 1
           op == Shown(Shown(Op("loadProblem", "SYSTEM_PROBLEM_MODE"),
                             "webview", "info"), "webview", "info")
       IN  client' =
              IF luogu
              THEN Begun(client, [op EXCEPT !.pc = "awaitScrape",
                                            !.fetches = op.fetches + 1])
              ELSE CallAi(Begun(client, op), k, FALSE, apiKey)
    /\ UNCHANGED <<document, located, apply>>
    /\ UNCHANGED serverVars

\* _scrapeLuogu returns the page or, after its own catch, a text that says
\* it failed (lines 1293-1316); _handleLoadProblem goes on either way
ScrapeReturned(k, apiKey) ==
    /\ client.ops[k].pc = "awaitScrape"
    /\ client' = CallAi(client, k, FALSE, apiKey)
    /\ UNCHANGED <<document, located, apply>>
    /\ UNCHANGED serverVars

\* the analyze command: analyzeRuntimeError runs to its first await, the
\* read of the clipboard (lines 635-652)
Analyze ==
    /\ Len(client.ops) < MaxActions
    /\ client' = Begun(client, [Op("analyze", "RUNTIME_ERROR_ANALYSIS")
                                   EXCEPT !.pc = "awaitClipboard"])
    /\ UNCHANGED <<document, located, apply>>
    /\ UNCHANGED serverVars

\* what analyzeRuntimeError finds (lines 654-698): no error text, a text
\* that is too short, no editor, a stack trace to analyse, or an exception
\* of the clipboard or of a command;
\* lines 654-741: a warning and return, the two webview messages and
\* _callAiWithHistory, or the two error messages of the catch
ClipboardRead(k, found, apiKey) ==
    /\ client.ops[k].pc = "awaitClipboard"
    /\ client' =
          IF found = "stackTrace"
          THEN CallAi(WithOp(client, k,
                             Shown(Shown(client.ops[k], "webview", "info"),
                                   "webview", "info")),
                      k, FALSE, apiKey)
          ELSE IF found = "thrown"
          THEN WithOp(client, k,
                      [Shown(Shown(client.ops[k], "notification", "error"),
                             "webview", "error")
                         EXCEPT !.pc = "done"])
          ELSE WithOp(client, k,
                      [Shown(client.ops[k], "notification", "warning")
                         EXCEPT !.pc = "done"])
    /\ UNCHANGED <<document, located, apply>>
    /\ UNCHANGED serverVars

\* the LLM endpoint answers, or fetch throws (lines 1403-1436)
LLMResponds(k, outcome) ==
    /\ client.ops[k].pc = "awaitLLM"
    /\ client' = LLMResponded(client, k, outcome)
    /\ UNCHANGED <<document, located, apply>>
    /\ UNCHANGED serverVars

\* the submitToCloud message (lines 291-293): _submitToCloud runs to the
\* await of _runCodeLocally, or warns that there is no code (lines 550-566)
SubmitToCloud(hasCode) ==
    /\ Len(client.ops) < MaxActions
    /\ client' =
          IF hasCode
          THEN Begun(client, [Shown(Op("submit", ""), "webview", "info")
                                 EXCEPT !.pc = "awaitLocalRun"])
          ELSE Begun(client, [Shown(Op("submit", ""), "notification", "warning")
                                 EXCEPT !.pc = "done"])
    /\ UNCHANGED <<document, located, apply>>
    /\ UNCHANGED serverVars

\* a failed run that reports the runtime as failed and the memory as 0
runCodeLocallyRuntimeOnly(run) ==
    IF run.error # ""
    THEN [output |-> run.error, runtime |-> -1, memory |-> 0]
    ELSE [output |-> run.stdout,
          runtime |-> IF Has(run.perf, "RUNTIME_MS") THEN run.perf.RUNTIME_MS ELSE 0,
          memory |-> IF Has(run.perf, "MEMORY_BYTES") THEN run.perf.MEMORY_BYTES ELSE 0]

\* _runCodeLocally, lines 321-535: what it returns when dotnet --version,
\* dotnet build or dotnet run threw run.error (the catch block, lines
\* 512-535), and otherwise from the standard output of the program and the
\* numbers between the two performance markers (lines 479-510)
runCodeLocally(run) ==
    IF run.error # ""
    THEN [output |-> run.error, runtime |-> -1, memory |-> -1]
    ELSE [output |-> run.stdout,
          runtime |-> IF Has(run.perf, "RUNTIME_MS") THEN run.perf.RUNTIME_MS ELSE 0,
          memory |-> IF Has(run.perf, "MEMORY_BYTES") THEN run.perf.MEMORY_BYTES ELSE 0]

\* _runCodeLocally returns (line 566); the result is shown and
\* POST /api/submit is sent with it (lines 568-616); _currentProblemId is
\* the id of the last problem loaded (line 306), here "101", and Date.now()
\* returns 1
LocalRunReturned(k, run) ==
    /\ client.ops[k].pc = "awaitLocalRun"
    /\ LET Posting(perfData, currentProblemId) ==
               [Shown(client.ops[k], "webview", "info")
                  EXCEPT !.pc = "awaitSubmit",
                         !.posts = client.ops[k].posts + 1,
                         !.sent = <<[problemId |-> IF currentProblemId # ""
                                                   THEN currentProblemId ELSE "Unknown",
                                     code |-> "code",
                                     output |-> perfData.output,
                                     runtime |-> perfData.runtime,
                                     memory |-> perfData.memory,
                                     timestamp |-> 1]>>]
       IN  client' = WithOp(client, k,
                            Posting(runCodeLocally(run),
                                    IF \E j \in DOMAIN client.ops :
                                          client.ops[j].kind = "loadProblem"
                                    THEN "101" ELSE ""))
    /\ UNCHANGED <<document, located, apply>>
    /\ UNCHANGED serverVars

\* axios.post resolves after the server handled the request (server.js
\* lines 130-177), or rejects for a refused connection
SubmitResponds(k, outcome) ==
    /\ client.ops[k].pc = "awaitSubmit"
    /\ client' = WithOp(client, k, SubmitResponded(client.ops[k], outcome))
    /\ IF outcome = "ok"
       THEN /\ submissions' =
                  PushRanked(submissions, NewSubmission(client.ops[k].sent[1], 1))
            /\ response' =
                  [handler |-> "submit", request |-> client.ops[k].sent[1], code |-> 200,
                   body |-> [message |-> "received",
                             beatRuntimePct |-> Latest(submissions').beatRuntimePct,
                             beatMemoryPct |-> Latest(submissions').beatMemoryPct]]
       ELSE UNCHANGED <<submissions, response>>
    /\ UNCHANGED <<document, located, apply>>
    /\ UNCHANGED <<problemsDatabase, problemsFile, beatArgs, beatResult, beatPc, polled>>

ClientNext ==
    \/ \E useLocalModel \in BOOLEAN, apiKey \in BOOLEAN : AskAI(useLocalModel, apiKey)
    \/ \E luogu \in BOOLEAN, apiKey \in BOOLEAN : LoadProblem(luogu, apiKey)
    \/ \E k \in DOMAIN client.ops, apiKey \in BOOLEAN : ScrapeReturned(k, apiKey)
    \/ Analyze
    \/ \E k \in DOMAIN client.ops, apiKey \in BOOLEAN,
          found \in {"nothing", "tooShort", "noEditor", "stackTrace", "thrown"} :
          ClipboardRead(k, found, apiKey)
    \/ \E k \in DOMAIN client.ops, outcome \in {"ok", "httpError", "thrown"} :
          LLMResponds(k, outcome)
    \/ \E hasCode \in BOOLEAN : SubmitToCloud(hasCode)
    \/ \E k \in DOMAIN client.ops,
          run \in {[error |-> "build failed", stdout |-> "", perf |-> << >>],
                   [error |-> "", stdout |-> "out",
                    perf |-> ("RUNTIME_MS" :> 1) @@ ("MEMORY_BYTES" :> 1)]} :
          LocalRunReturned(k, run)
    \/ \E k \in DOMAIN client.ops, outcome \in {"ok", "failed"} : SubmitResponds(k, outcome)

SpecClient == ClientInit /\ [][ClientNext]_vars

\* the submissions of the extension and the statistics the web page asks for
CloudNext ==
    \/ \E hasCode \in BOOLEAN : SubmitToCloud(hasCode)
    \/ \E k \in DOMAIN client.ops,
          run \in {[error |-> e, stdout |-> "", perf |-> << >>] :
                      e \in {"dotnet not found", "build failed", "run failed"}}
                   \cup {[error |-> "", stdout |-> "out", perf |-> perf] :
                            perf \in {<< >>, "RUNTIME_MS" :> 2,
                                      ("RUNTIME_MS" :> 1) @@ ("MEMORY_BYTES" :> 1)}} :
          LocalRunReturned(k, run)
    \/ \E k \in DOMAIN client.ops, outcome \in {"ok", "failed"} : SubmitResponds(k, outcome)
    \/ \E query \in StatsQueries : Stats(query)

SpecCloud == ClientInit /\ [][CloudNext]_vars

---------------------------------------------------------------------------
(* Properties of the network calls, checked under SpecClient *)

\* the messages of op that report an error, by where they are shown
ErrorsShown(op, to) ==
    {i \in DOMAIN op.messages : op.messages[i] = Message(to, "error")}

\* C20 as amended: nothing is retried: a user action sends at most one
\* request to the LLM endpoint (askAI, loadProblem, analyze) or at most one
\* POST /api/submit (submitToCloud), and none once it has ended; a failed
\* LLM request is reported by exactly one error message in the webview, a
\* failed submit by exactly one error notification and one error message
\* in the webview.
C20_NoRetryErrorReported ==
    \A k \in DOMAIN client.ops :
       LET op == client.ops[k]
       IN  /\ op.requests + op.posts <= 1
           /\ op.kind = "submit" => op.requests = 0
           /\ op.kind # "submit" => op.posts = 0
           /\ op.failed =>
                 /\ op.pc = "done"
                 /\ Cardinality(ErrorsShown(op, "webview")) = 1
                 /\ Cardinality(ErrorsShown(op, "notification")) =
                       IF op.kind = "submit" THEN 1 ELSE 0

\* a failed submit next to a failed askAI, each reported and neither sent again
C20_Witness ==
    /\ Len(client.ops) = 2
    /\ client.ops[1].kind = "submit" /\ client.ops[1].failed
    /\ client.ops[1].posts = 1
    /\ client.ops[2].kind = "askAI" /\ client.ops[2].failed
    /\ client.ops[2].requests = 1
    /\ client.ops[2].pc = "done"

\* C20 as stated: a user action sends at most one request, and when the
\* request fails exactly one error message is shown to the user.
C20_ExactlyOneErrorMessage ==
    \A k \in DOMAIN client.ops :
       LET op == client.ops[k]
       IN  /\ op.requests + op.posts <= 1
           /\ op.failed =>
                 Cardinality({i \in DOMAIN op.messages :
                                 op.messages[i].level = "error"}) = 1


\* C26: _history alternates user, assistant, user, assistant, ..., and
\* every assistant entry directly follows the user entry it answers.
C26_HistoryAlternates ==
    \A i \in DOMAIN client.history :
       IF i % 2 = 1 THEN client.history[i].role = "user"
       ELSE /\ client.history[i].role = "assistant"
            /\ client.history[i].op = client.history[i - 1].op

\* C27: when a call sends its request, the messages of an askAI request
\* are the system prompt followed by the whole history of that moment,
\* which ends with the user message of this call; those of a runtime error
\* analysis or of a problem load are the system prompt and the full
\* prompt, while the history got the summary.
C27_RequestMessages ==
    [][\A k \in DOMAIN client'.ops :
          (/\ client'.ops[k].requests = 1
           /\ k \in DOMAIN client.ops => client.ops[k].requests = 0)
             => LET op == client'.ops[k]
                    history == client'.history
                IN  IF op.context \in {"RUNTIME_ERROR_ANALYSIS", "SYSTEM_PROBLEM_MODE"}
                    THEN /\ op.sent = <<Entry("system", k, "systemPrompt"),
                                        Entry("user", k, "fullMessage")>>
                         /\ history[Len(history)] = Entry("user", k, "summary")
                    ELSE /\ op.sent = <<Entry("system", k, "systemPrompt")>> \o history
                         /\ op.sent[Len(op.sent)] = Entry("user", k, "fullMessage")]_vars

\* a second askAI request sent while the first is in flight, after a
\* problem load whose request is in flight as well
C27_Witness ==
    /\ Len(client.ops) = 2
    /\ client.ops[1].kind = "loadProblem" /\ client.ops[1].pc = "awaitLLM"
    /\ client.ops[2].kind = "askAI" /\ client.ops[2].pc = "awaitLLM"
    /\ client.ops[1].sent = <<Entry("system", 1, "systemPrompt"),
                              Entry("user", 1, "fullMessage")>>
    /\ client.ops[2].sent = <<Entry("system", 2, "systemPrompt"),
                              Entry("user", 1, "summary"),
                              Entry("user", 2, "fullMessage")>>


\* C28: called without a selection, _applyCodeToEditor changes the
\* document only on a step where the user picks an applying option: the
\* call itself changes nothing, the replace prompt changes it only on
\* "replace" (not on "cancel", "diff" or a dismissal), the fallback prompt
\* only on "insert" and the confirmation only on "ok".
C28_EditOnlyOnApplyingOption ==
    [][(/\ apply'.pc # "idle"
        /\ apply'.editorOpen
        /\ apply'.selection.start = apply'.selection.end
        /\ document' # document)
          => /\ apply.pc \in {"askReplace", "askFallback", "confirmReplaceFile"}
             /\ apply'.answers[Len(apply'.answers)]
                   = CASE apply.pc = "askReplace" -> "replace"
                       [] apply.pc = "askFallback" -> "insert"
                       [] apply.pc = "confirmReplaceFile" -> "ok"]_vars

\* a method was found for the code, the user chose to see the difference,
\* and the document is the one the editor showed at the call
C28_Witness ==
    /\ apply.pc = "done"
    /\ apply.selection.start = apply.selection.end
    /\ apply.codeType.type = "method"
    /\ apply.targetRange # null
    /\ apply.answers = <<"diff">>
    /\ apply.code # SubSeq(document, apply.targetRange[1].start + 1,
                           apply.targetRange[1].end)
    /\ document \in ApplyDocuments


\* C29: a failed local run does not stop the submission: the call still
\* posts, the body carries runtime = -1 and memory = -1 together (and no
\* body carries one negative metric alone), the server stores the entry
\* with beatRuntimePct = null and beatMemoryPct = null, and GET /api/stats
\* leaves every such entry out of validSubmissions and of its history.
C29_FailedRunIsSubmitted ==
    [][/\ \A k \in DOMAIN client.ops :
             client.ops[k].pc = "awaitLocalRun" /\ client'.ops[k] # client.ops[k]
                => LET body == client'.ops[k].sent[1]
                   IN  /\ client'.ops[k].pc = "awaitSubmit"
                       /\ client'.ops[k].posts = 1
                       /\ body.output \in {"dotnet not found", "build failed", "run failed"}
                             => body.runtime = -1 /\ body.memory = -1
                       /\ body.runtime < 0 \/ body.memory < 0
                             => body.runtime = -1 /\ body.memory = -1
       /\ \A k \in DOMAIN client.ops :
             (/\ client.ops[k].pc = "awaitSubmit"
              /\ client'.ops[k].pc = "done"
              /\ client.ops[k].sent[1].runtime = -1
              /\ submissions' # submissions)
                => /\ Len(submissions') = Len(submissions) + 1
                   /\ SubSeq(submissions', 1, Len(submissions)) = submissions
                   /\ Latest(submissions').runtime = -1
                   /\ Latest(submissions').memory = -1
                   /\ Latest(submissions').beatRuntimePct = null
                   /\ Latest(submissions').beatMemoryPct = null
       /\ response'.handler = "stats"
             => LET filtered == FilteredSubmissions(submissions, response'.request)
                    failed == {i \in DOMAIN filtered : filtered[i].runtime = -1}
                IN  /\ response'.body.validSubmissions = Len(filtered) - Cardinality(failed)
                    /\ Len(response'.body.history) = response'.body.validSubmissions
                    /\ \A i \in DOMAIN response'.body.history :
                          response'.body.history[i].runtime >= 0]_vars

\* a failed run and a measured one were both submitted and stored, and
\* GET /api/stats counted the measured one only
C29_Witness ==
    /\ Len(submissions) = 2
    /\ submissions[1].runtime = -1 /\ submissions[1].memory = -1
    /\ submissions[1].output = "build failed"
    /\ submissions[1].beatRuntimePct = null /\ submissions[1].beatMemoryPct = null
    /\ submissions[2].runtime = 1 /\ submissions[2].memory = 1
    /\ \A k \in DOMAIN client.ops : client.ops[k].pc = "done"
    /\ response.handler = "stats"
    /\ response.request = << >>
    /\ response.body.totalSubmissions = 2
    /\ response.body.validSubmissions = 1

============================================================================
